---- MODULE Spec2Model ----
(***************************************************************************)
(* Archivist python_rag pipeline: chunker -> indexer -> vector store ->    *)
(* retriever.  The indexer and the two vector store back ends are modelled *)
(* step by step (one action per statement group of index_paper and         *)
(* delete_paper_index); the chunker and the retriever's context assembly   *)
(* are pure functions and are modelled as operators.                       *)
(***************************************************************************)
EXTENDS Bags, FiniteSets, Integers, Sequences, TLC

(***************************************************************************)
(* Bounds of the model                                                     *)
(***************************************************************************)
\* longest text handed to index_paper, in sentences
MaxSentences == 2
\* number of index_paper / delete_paper_index calls in one behaviour
MaxCalls == 3
\* most records the store ranks for a query
MaxHits == 3
\* longest text handed to chunk_text directly, in sentences
MaxChunkSentences == 4
\* most section markers of a text handed to chunk_latex
MaxSections == 3
\* number of submit_job calls in one behaviour
MaxJobs == 4
\* number of submit_job calls in one behaviour of a single worker
MaxPriorityJobs == 7

(***************************************************************************)
(* Program constants                                                       *)
(***************************************************************************)
DefaultChunkSize == 1000
DefaultChunkOverlap == 200
\* Retriever.top_k
DefaultTopK == 5
\* Retriever.score_threshold, 0.3; scores are counted in tenths
ScoreThreshold == 3

\* paper titles (source identifiers)
Titles == {"A", "B"}
\* threads calling into the indexer
Callers == {1}
\* DocumentIndexer objects created over the same metadata_dir
Instances == {1, 2}
\* sentence lengths, in characters, of the texts that are indexed
SentenceLens == {900}
\* the worker tasks of a WorkerQueue (num_workers = 2)
Workers == {1, 2}
\* the priority argument of submit_job
JobPriorities == {0, 1, 2}

VARIABLES
    provider,            \* create_vector_store: "faiss" or "chromadb"
    documents_metadata,  \* FAISSVectorStore.documents_metadata (a list)
    index,               \* FAISSVectorStore.index: the vectors, by record id
    collection,          \* ChromaDBVectorStore.collection: records by id
    indexed_papers,      \* DocumentIndexer.indexed_papers (in memory)
    index_metadata_file, \* indexed_papers.json (durable)
    chunk_size,          \* TextChunker.chunk_size
    chunk_overlap,       \* TextChunker.chunk_overlap
    now,                 \* number of calls started: the clock of indexed_at
    pc,                  \* per caller: position in the running operation
    paper_title,         \* per caller: argument
    latex_content,       \* per caller: argument (the text, as its sentences)
    force_reindex,       \* per caller: argument
    chunks,              \* per caller: local of index_paper
    vector_docs,         \* per caller: local of index_paper
    result,              \* per caller: what the call returned or raised
    calls,               \* per caller: collaborator calls made by the call
    op,                  \* per caller: the operation called last
    pre,                 \* per caller: store and map when the call started
    ranked,              \* the stored records by similarity to the query, best first
    max_context_length,  \* Retriever.max_context_length
    r_call,              \* the retriever call made last, with its arguments
    context,             \* what that call returned or raised, with its locals
    instances,           \* the DocumentIndexer objects that share the metadata file
    jobs,                \* WorkerQueue.jobs: the GraphJob records, by job id
    job_queue,           \* WorkerQueue.job_queue: the heap of (-priority, job) entries
    unfinished_tasks,    \* job_queue's count of entries put and not yet task_done
    processed_count,     \* WorkerQueue.processed_count
    failed_count,        \* WorkerQueue.failed_count
    is_running,          \* WorkerQueue.is_running
    workers,             \* WorkerQueue.workers: per task, its position and its job
    shutdown_pc          \* the position of the shutdown() call

storeVars == <<provider, documents_metadata, index, collection>>
mapVars == <<indexed_papers, index_metadata_file>>
chunkerVars == <<chunk_size, chunk_overlap>>
callVars == <<pc, paper_title, latex_content, force_reindex, chunks,
              vector_docs, result, calls, op, pre>>
retrieverVars == <<ranked, max_context_length, r_call, context>>
instanceVars == <<instances>>
queueVars == <<jobs, job_queue, unfinished_tasks, processed_count, failed_count,
               is_running, workers, shutdown_pc>>
vars == <<storeVars, mapVars, chunkerVars, now, callVars, retrieverVars, instanceVars, queueVars>>

(***************************************************************************)
(* Chunker (chunker.py).  A text is modelled after _clean_text and         *)
(* _split_into_sentences: the sequence of its sentences, each a record     *)
(* with its position in the text and its length in characters.             *)
(***************************************************************************)
Sentences(lens) == [i \in 1..Len(lens) |-> [pos |-> i, len |-> lens[i]]]

RECURSIVE SumLen(_)
SumLen(ss) == IF ss = <<>> THEN 0 ELSE ss[1].len + SumLen(Tail(ss))

\* len(" ".join(sentences))
JoinedLen(ss) == IF ss = <<>> THEN 0 ELSE SumLen(ss) + Len(ss) - 1

\* the walk with the budget compared before the sentence is counted
RECURSIVE OverlapFromChecksAfter(_, _, _, _, _)
OverlapFromChecksAfter(sentences, i, current_size, overlap_size, overlap_sentences) ==
    IF i = 0 THEN overlap_sentences
    ELSE IF current_size > overlap_size THEN overlap_sentences
    ELSE OverlapFromChecksAfter(sentences, i - 1,
                                current_size + sentences[i].len + 1, overlap_size,
                                <<sentences[i]>> \o overlap_sentences)

RECURSIVE OverlapFrom(_, _, _, _, _)
OverlapFrom(sentences, i, current_size, overlap_size, overlap_sentences) ==
    IF i = 0 THEN overlap_sentences
    ELSE IF current_size + sentences[i].len > overlap_size THEN overlap_sentences
    ELSE OverlapFrom(sentences, i - 1, current_size + sentences[i].len + 1,
                     overlap_size, <<sentences[i]>> \o overlap_sentences)

CalculateOverlapSentences(sentences, overlap_size) ==
    OverlapFrom(sentences, Len(sentences), 0, overlap_size, <<>>)

\* chunks numbered from one
MakeChunkOneBased(current_chunk, chunk_index) ==
    [text |-> current_chunk, chunk_index |-> chunk_index + 1, section |-> ""]

MakeChunk(current_chunk, chunk_index) ==
    [text |-> current_chunk, chunk_index |-> chunk_index, section |-> ""]

\* the loop that starts the next chunk with the overlap only and goes on to
\* the next sentence
RECURSIVE ChunkLoopDropsSentence(_, _, _, _, _, _, _)
ChunkLoopDropsSentence(sentences, i, out, current_chunk, current_length, size, overlap) ==
    IF i > Len(sentences)
    THEN IF current_chunk # <<>>
         THEN Append(out, MakeChunk(current_chunk, Len(out)))
         ELSE out
    ELSE LET s == sentences[i] IN
         IF current_length + s.len > size /\ current_chunk # <<>>
         THEN LET ov == CalculateOverlapSentences(current_chunk, overlap) IN
              ChunkLoopDropsSentence(sentences, i + 1,
                                     Append(out, MakeChunk(current_chunk, Len(out))),
                                     ov, SumLen(ov), size, overlap)
         ELSE ChunkLoopDropsSentence(sentences, i + 1, out, Append(current_chunk, s),
                                     current_length + s.len + 1, size, overlap)

RECURSIVE ChunkLoop(_, _, _, _, _, _, _)
ChunkLoop(sentences, i, out, current_chunk, current_length, size, overlap) ==
    IF i > Len(sentences)
    THEN IF current_chunk # <<>>
         THEN Append(out, MakeChunk(current_chunk, Len(out)))
         ELSE out
    ELSE LET s == sentences[i] IN
         IF current_length + s.len > size /\ current_chunk # <<>>
         THEN LET ov == CalculateOverlapSentences(current_chunk, overlap) IN
              ChunkLoop(sentences, i + 1,
                        Append(out, MakeChunk(current_chunk, Len(out))),
                        Append(ov, s), SumLen(ov) + s.len + 1, size, overlap)
         ELSE ChunkLoop(sentences, i + 1, out, Append(current_chunk, s),
                        current_length + s.len + 1, size, overlap)

ChunkText(text, size, overlap) ==
    IF text = <<>> THEN <<>>
    ELSE ChunkLoop(text, 1, <<>>, <<>>, 0, size, overlap)

\* A text with \section, \subsection or \subsubsection markers is modelled
\* as the sequence of its markers in document order, each a record
\* [title, level, body] with body the sentences between the end of the marker
\* and the next marker (or the end of the text); a text without markers is
\* the sequence of its sentences.
HasMarkers(latex_text) == latex_text # <<>> /\ "title" \in DOMAIN latex_text[1]

\* sections[section_key] = content on a dict, kept as the sequence of its
\* items: a key already present keeps its place and takes the new content
DictSet(sections, key, content) ==
    IF \E k \in 1..Len(sections) : sections[k].key = key
    THEN [k \in 1..Len(sections) |->
              IF sections[k].key = key THEN [key |-> key, content |-> content]
              ELSE sections[k]]
    ELSE Append(sections, [key |-> key, content |-> content])

\* _extract_latex_sections: the loop over the sorted markers
RECURSIVE ExtractFrom(_, _, _)
ExtractFrom(section_markers, i, sections) ==
    IF i > Len(section_markers) THEN sections
    ELSE LET m == section_markers[i]
             section_key == m.title \o " (" \o m.level \o ")"
         IN  ExtractFrom(section_markers, i + 1,
                         IF m.body # <<>> THEN DictSet(sections, section_key, m.body)
                         ELSE sections)

ExtractLatexSections(latex_text) ==
    IF HasMarkers(latex_text) THEN ExtractFrom(latex_text, 1, <<>>) ELSE <<>>

\* chunk_latex: the loop over sections.items(); the chunks of a section are
\* tagged with its key and numbered on from the chunks before them
RECURSIVE SectionChunks(_, _, _, _, _)
SectionChunks(sections, i, all_chunks, size, overlap) ==
    IF i > Len(sections) THEN all_chunks
    ELSE LET section_chunks == ChunkText(sections[i].content, size, overlap)
             tagged == [k \in 1..Len(section_chunks) |->
                           [section_chunks[k] EXCEPT
                               !.section = sections[i].key,
                               !.chunk_index = Len(all_chunks) + k - 1]]
         IN  SectionChunks(sections, i + 1, all_chunks \o tagged, size, overlap)

\* the markers of a text none of whose sections has a body: with nothing
\* between them they are one sentence to _split_into_sentences
RECURSIVE MarkersLen(_)
MarkersLen(latex_text) ==
    IF latex_text = <<>> THEN 0
    ELSE Len(latex_text[1].level) + Len(latex_text[1].title) + 3
            + MarkersLen(Tail(latex_text))

\* chunk_latex of a chunker with respect_sections = True (the default)
ChunkLatex(latex_text, size, overlap) ==
    LET sections == ExtractLatexSections(latex_text) IN
    IF sections # <<>> THEN SectionChunks(sections, 1, <<>>, size, overlap)
    ELSE IF HasMarkers(latex_text)
    THEN ChunkText(Sentences(<<MarkersLen(latex_text)>>), size, overlap)
    ELSE ChunkText(latex_text, size, overlap)

RECURSIVE SeqsUpTo(_, _)
SeqsUpTo(S, n) ==
    IF n = 0 THEN {<<>>}
    ELSE LET shorter == SeqsUpTo(S, n - 1) IN
         shorter \cup {Append(q, x) : q \in {r \in shorter : Len(r) = n - 1}, x \in S}

\* the texts handed to index_paper
Texts == {Sentences(lens) : lens \in SeqsUpTo(SentenceLens, MaxSentences)}

(***************************************************************************)
(* Vector stores (vector_store.py).  A stored record is                    *)
(* [id, text, source, section]; id is _generate_doc_id(title, i), the pair *)
(* <<title, i>> (the md5 of "title_i" followed by "_chunk_i").             *)
(***************************************************************************)
GenerateDocId(title, chunk_index) == <<title, chunk_index>>

RECURSIVE SeqToSet(_)
SeqToSet(q) == IF q = <<>> THEN {} ELSE {q[1]} \cup SeqToSet(Tail(q))

Ids(docs) == [i \in 1..Len(docs) |-> docs[i].id]

\* FAISSVectorStore.add_documents: the vectors are appended to the index and
\* the payloads to documents_metadata; nothing looks at the ids.
FaissAddDocuments(md, idx, documents) ==
    IF documents = <<>> THEN [md |-> md, idx |-> idx]
    ELSE [md |-> md \o documents, idx |-> idx \o Ids(documents)]

\* the comparison with the source the wrong way round
FaissDeleteBySourceInverted(md, idx, source) ==
    LET new_metadata == SelectSeq(md, LAMBDA m : m.source = source)
        deleted_count == Len(md) - Len(new_metadata)
    IN  IF deleted_count = 0
        THEN [md |-> md, idx |-> idx, deleted |-> 0]
        ELSE [md |-> new_metadata, idx |-> <<>>, deleted |-> deleted_count]

\* FAISSVectorStore.delete_by_source: the payloads of the source are dropped
\* and the index is reset; the remaining vectors are not added again.
FaissDeleteBySource(md, idx, source) ==
    LET new_metadata == SelectSeq(md, LAMBDA m : m.source # source)
        deleted_count == Len(md) - Len(new_metadata)
    IN  IF deleted_count = 0
        THEN [md |-> md, idx |-> idx, deleted |-> 0]
        ELSE [md |-> new_metadata, idx |-> <<>>, deleted |-> deleted_count]

\* FAISSVectorStore.count
FaissCount(idx) == Len(idx)

\* ChromaDBVectorStore.add_documents: collection.add keeps the record already
\* stored under an id and inserts the others.
ChromaAddDocuments(coll, documents) ==
    coll \cup {d \in SeqToSet(documents) : \A c \in coll : c.id # d.id}

\* ChromaDBVectorStore.delete_by_source
ChromaDeleteBySource(coll, source) ==
    LET ids == {c \in coll : c.source = source}
    IN  [coll |-> coll \ ids, deleted |-> Cardinality(ids)]

\* ChromaDBVectorStore.count
ChromaCount(coll) == Cardinality(coll)

\* the state of the configured store: <<documents_metadata, index, collection>>
StoreState == <<documents_metadata, index, collection>>

\* VectorStore.count of the configured back end, in store state st
CountIn(st) == IF provider = "faiss" THEN FaissCount(st[2]) ELSE ChromaCount(st[3])

\* get_documents_by_source: the stored records whose source metadata is the
\* title, in store state st
FaissDocumentsBySource(md, source) == SelectSeq(md, LAMBDA m : m.source = source)
ChromaDocumentsBySource(coll, source) == {c \in coll : c.source = source}

RecordsIn(st, title) ==
    IF provider = "faiss"
    THEN Len(FaissDocumentsBySource(st[1], title))
    ELSE Cardinality(ChromaDocumentsBySource(st[3], title))

Count == CountIn(StoreState)

\* VectorStore.add_documents of the configured back end
AddDocuments(st, documents) ==
    IF provider = "faiss"
    THEN LET r == FaissAddDocuments(st[1], st[2], documents)
         IN  <<r.md, r.idx, st[3]>>
    ELSE <<st[1], st[2], ChromaAddDocuments(st[3], documents)>>

\* VectorStore.delete_by_source of the configured back end
DeleteBySource(st, source) ==
    IF provider = "faiss"
    THEN LET r == FaissDeleteBySource(st[1], st[2], source)
         IN  [st |-> <<r.md, r.idx, st[3]>>, deleted |-> r.deleted]
    ELSE LET r == ChromaDeleteBySource(st[3], source)
         IN  [st |-> <<st[1], st[2], r.coll>>, deleted |-> r.deleted]

SetStore(st) ==
    /\ documents_metadata' = st[1]
    /\ index' = st[2]
    /\ collection' = st[3]
RecordsOf(title) == RecordsIn(StoreState, title)

(***************************************************************************)
(* Indexer (indexer.py)                                                    *)
(***************************************************************************)
IsIndexed(papers, title) == title \in DOMAIN papers

\* the flag read the wrong way round
AlreadyIndexedInverted(papers, title, force) == force /\ IsIndexed(papers, title)

\* index_paper: "if not force_reindex and self.is_indexed(paper_title)"
AlreadyIndexed(papers, title, force) == ~force /\ IsIndexed(papers, title)

\* index_paper, step 3: one VectorDocument per chunk
BuildVectorDocs(title, cs) ==
    [i \in 1..Len(cs) |->
        [id |-> GenerateDocId(title, i - 1), text |-> cs[i].text,
         source |-> title, section |-> cs[i].section]]

\* index_paper, step 5: the entry written for the title
IndexEntry(cs, at) == [num_chunks |-> Len(cs), indexed_at |-> at]

SetEntry(papers, title, entry) ==
    [t \in DOMAIN papers \cup {title} |-> IF t = title THEN entry ELSE papers[t]]

DelEntry(papers, title) == [t \in DOMAIN papers \ {title} |-> papers[t]]

NoResult == [kind |-> "none", value |-> 0]
Returned(n) == [kind |-> "returned", value |-> n]
Raised == [kind |-> "raised", value |-> 0]

(***************************************************************************)
(* Retriever (retriever.py).  A search hit is [document, score]; a         *)
(* document is [id, text, source, section] with text, source and section   *)
(* strings; a score is counted in tenths (9 is 0.9).  A query is the       *)
(* sequence of its characters.                                             *)
(***************************************************************************)
Min(a, b) == IF a < b THEN a ELSE b

\* results[:n]
Take(q, n) == SubSeq(q, 1, Min(n, Len(q)))

Digit == [d \in 0..9 |->
            CASE d = 0 -> "0" [] d = 1 -> "1" [] d = 2 -> "2" [] d = 3 -> "3"
              [] d = 4 -> "4" [] d = 5 -> "5" [] d = 6 -> "6" [] d = 7 -> "7"
              [] d = 8 -> "8" [] d = 9 -> "9"]

\* str(i) of f"\n[Chunk {i}"
RECURSIVE Str(_)
Str(i) == IF i < 10 THEN Digit[i] ELSE Str(i \div 10) \o Digit[i % 10]

\* f"{result.score:.3f}" of a score given in tenths
FormatScore(score) ==
    LET a == IF score < 0 THEN 0 - score ELSE score
    IN  (IF score < 0 THEN "-" ELSE "") \o Str(a \div 10) \o "." \o Digit[a % 10]
            \o "00"

IsSpace(c) == c \in {" ", "\t", "\n"}

\* query.strip()
RECURSIVE Strip(_)
Strip(query) ==
    IF query = <<>> THEN <<>>
    ELSE IF IsSpace(query[1]) THEN Strip(Tail(query))
    ELSE IF IsSpace(query[Len(query)]) THEN Strip(SubSeq(query, 1, Len(query) - 1))
    ELSE query

NoFilter == "<none>"

Matches(hit, filter) == filter = NoFilter \/ hit.document.source = filter

\* FAISSVectorStore.search: index.search over min(top_k * 2, count()) vectors,
\* then the source filter, at most top_k results
FaissSearch(rk, top_k, filter) ==
    LET window == Take(rk, Min(top_k * 2, Len(rk)))
    IN  Take(SelectSeq(window, LAMBDA h : Matches(h, filter)), top_k)

\* ChromaDBVectorStore.search: collection.query(n_results=top_k, where=...)
ChromaSearch(rk, top_k, filter) ==
    Take(SelectSeq(rk, LAMBDA h : Matches(h, filter)), top_k)

\* VectorStore.search of the configured back end
Search(rk, top_k, filter) ==
    IF provider = "faiss" THEN FaissSearch(rk, top_k, filter)
    ELSE ChromaSearch(rk, top_k, filter)

\* the order of sorted(...) on the strings of the model
StringOrder == <<"A", "B", "Intro (section)", "Method (section)">>

\* sorted(list(a_set))
Sorted(S) == SelectSeq(StringOrder, LAMBDA x : x \in S)

RECURSIVE Join(_)
Join(parts) == IF parts = <<>> THEN "" ELSE parts[1] \o Join(Tail(parts))

\* _build_context: chunk_header
ChunkHeader(i, hit) ==
    "\n[Chunk " \o Str(i)
        \o (IF hit.document.source # "" THEN " | Source: " \o hit.document.source
            ELSE "")
        \o (IF hit.document.section # "" THEN " | Section: " \o hit.document.section
            ELSE "")
        \o " | Score: " \o FormatScore(hit.score) \o "]\n"

\* _build_context: chunk_text = chunk_header + doc.text + "\n"
ChunkTextOf(i, hit) == ChunkHeader(i, hit) \o hit.document.text \o "\n"

\* the loop with the length check moved after the append
RECURSIVE BuildLoopAppendsFirst(_, _, _, _, _, _, _)
BuildLoopAppendsFirst(results, i, context_parts, current_length, sources, sections, max) ==
    IF i > Len(results)
    THEN [context_parts |-> context_parts, sources |-> sources, sections |-> sections]
    ELSE LET doc == results[i].document
             sources2 == sources \cup {doc.source}
             sections2 == IF doc.section # "" THEN sections \cup {doc.section}
                          ELSE sections
             chunk_text == ChunkTextOf(i, results[i])
             parts2 == Append(context_parts, chunk_text)
             length2 == current_length + Len(chunk_text)
         IN  IF max > 0 /\ length2 > max
             THEN [context_parts |-> parts2, sources |-> sources2,
                   sections |-> sections2]
             ELSE BuildLoopAppendsFirst(results, i + 1, parts2, length2, sources2,
                                        sections2, max)

\* the loop with "continue" in place of "break"
RECURSIVE BuildLoopSkips(_, _, _, _, _, _, _)
BuildLoopSkips(results, i, context_parts, current_length, sources, sections, max) ==
    IF i > Len(results)
    THEN [context_parts |-> context_parts, sources |-> sources, sections |-> sections]
    ELSE LET doc == results[i].document
             sources2 == sources \cup {doc.source}
             sections2 == IF doc.section # "" THEN sections \cup {doc.section}
                          ELSE sections
             chunk_text == ChunkTextOf(i, results[i])
         IN  IF max > 0 /\ current_length + Len(chunk_text) > max
             THEN BuildLoopSkips(results, i + 1, context_parts, current_length,
                                 sources2, sections2, max)
             ELSE BuildLoopSkips(results, i + 1, Append(context_parts, chunk_text),
                                 current_length + Len(chunk_text), sources2,
                                 sections2, max)

\* _build_context: the loop over enumerate(results, 1)
RECURSIVE BuildLoop(_, _, _, _, _, _, _)
BuildLoop(results, i, context_parts, current_length, sources, sections, max) ==
    IF i > Len(results)
    THEN [context_parts |-> context_parts, sources |-> sources, sections |-> sections]
    ELSE LET doc == results[i].document
             sources2 == sources \cup {doc.source}
             sections2 == IF doc.section # "" THEN sections \cup {doc.section}
                          ELSE sections
             chunk_text == ChunkTextOf(i, results[i])
         IN  IF max > 0 /\ current_length + Len(chunk_text) > max
             THEN [context_parts |-> context_parts, sources |-> sources2,
                   sections |-> sections2]
             ELSE BuildLoop(results, i + 1, Append(context_parts, chunk_text),
                            current_length + Len(chunk_text), sources2, sections2,
                            max)

\* RetrievedContext, with the locals of the call that built it: calls (the
\* collaborator calls made), results (what the store returned, or the pooled
\* hits of retrieve_multi_paper) and filtered (the hits handed to
\* _build_context)
Context(status, chunks_, text, sources, sections, total, calls_, results, filtered) ==
    [status |-> status, chunks |-> chunks_, context_text |-> text,
     sources |-> sources, sections |-> sections, total_chunks |-> total,
     calls |-> calls_, results |-> results, filtered |-> filtered]

\* _build_context
BuildContext(results, max, calls_, found) ==
    LET b == BuildLoop(results, 1, <<>>, 0, {}, {}, max)
    IN  Context("ok", Take(results, Len(b.context_parts)), Join(b.context_parts),
                Sorted(b.sources), Sorted(b.sections), Len(b.context_parts),
                calls_, found, results)

\* the "No relevant context found." RetrievedContext
NoContext(calls_, found) ==
    Context("ok", <<>>, "No relevant context found.", <<>>, <<>>, 0, calls_,
            found, <<>>)

\* an exception leaves the call
Failure(error, calls_) == Context(error, <<>>, "", <<>>, <<>>, 0, calls_, <<>>, <<>>)

\* top_k = top_k or self.top_k
EffectiveTopK(top_k) == IF top_k = 0 THEN DefaultTopK ELSE top_k

\* the comparison written as "r.score > self.score_threshold"
AboveThresholdStrict(hit) == hit.score > ScoreThreshold

\* retrieve: "r.score >= self.score_threshold"
AboveThreshold(hit) == hit.score >= ScoreThreshold

\* retrieve: the threshold filter and [:top_k]
FilterResults(results, top_k) == Take(SelectSeq(results, AboveThreshold), top_k)

\* retrieve with the query validated after the embedding call
RetrieveResultChecksLate(rk, max, query, filter, top_k, fail) ==
    IF fail = "embed_text" THEN Failure("ProviderFailure", <<"embed_text">>)
    ELSE IF query = <<>> \/ Strip(query) = <<>>
    THEN Failure("ValueError", <<"embed_text">>)
    ELSE IF fail = "search" THEN Failure("ProviderFailure", <<"embed_text", "search">>)
    ELSE LET k == EffectiveTopK(top_k)
             results == Search(rk, k * 2, filter)
             filtered_results == FilterResults(results, k)
         IN  IF filtered_results = <<>>
             THEN NoContext(<<"embed_text", "search">>, results)
             ELSE BuildContext(filtered_results, max, <<"embed_text", "search">>,
                               results)

\* Retriever.retrieve; fail names the collaborator call that raises, if any
RetrieveResult(rk, max, query, filter, top_k, fail) ==
    IF query = <<>> \/ Strip(query) = <<>> THEN Failure("ValueError", <<>>)
    ELSE IF fail = "embed_text" THEN Failure("ProviderFailure", <<"embed_text">>)
    ELSE IF fail = "search" THEN Failure("ProviderFailure", <<"embed_text", "search">>)
    ELSE LET k == EffectiveTopK(top_k)
             results == Search(rk, k * 2, filter)
             filtered_results == FilterResults(results, k)
         IN  IF filtered_results = <<>>
             THEN NoContext(<<"embed_text", "search">>, results)
             ELSE BuildContext(filtered_results, max, <<"embed_text", "search">>,
                               results)

\* Retriever.retrieve_from_paper
RetrieveFromPaperResult(rk, max, query, title, top_k, fail) ==
    RetrieveResult(rk, max, query, title, top_k, fail)

\* all_results.sort(key=lambda x: x.score, reverse=True): a stable sort,
\* modelled as an insertion sort that keeps equal scores in input order
RECURSIVE InsertByScore(_, _)
InsertByScore(sorted, hit) ==
    IF sorted = <<>> THEN <<hit>>
    ELSE IF sorted[Len(sorted)].score >= hit.score THEN Append(sorted, hit)
    ELSE Append(InsertByScore(SubSeq(sorted, 1, Len(sorted) - 1), hit),
                sorted[Len(sorted)])

RECURSIVE SortByScore(_)
SortByScore(hits) ==
    IF hits = <<>> THEN <<>>
    ELSE InsertByScore(SortByScore(SubSeq(hits, 1, Len(hits) - 1)), hits[Len(hits)])

\* the round that pools a title's hits although its retrieval failed
HitsOfPaperIgnoresFailure(rk, max, query, title, top_k, failing, kind) ==
    LET c == RetrieveFromPaperResult(rk, max, query, title, top_k, "none")
    IN  IF c.status = "ok" THEN c.chunks ELSE <<>>

\* retrieve_multi_paper: what one round of the loop adds to all_results;
\* an exception of retrieve_from_paper is caught and logged
HitsOfPaper(rk, max, query, title, top_k, failing, kind) ==
    LET c == RetrieveFromPaperResult(rk, max, query, title, top_k,
                                     IF title \in failing THEN kind ELSE "none")
    IN  IF c.status = "ok" THEN c.chunks ELSE <<>>

\* retrieve_multi_paper: the loop over paper_titles
RECURSIVE PoolResults(_, _, _, _, _, _, _)
PoolResults(rk, max, query, paper_titles, top_k, failing, kind) ==
    IF paper_titles = <<>> THEN <<>>
    ELSE HitsOfPaper(rk, max, query, paper_titles[1], top_k, failing, kind)
            \o PoolResults(rk, max, query, Tail(paper_titles), top_k, failing, kind)

\* retrieve_multi_paper: the collaborator calls made by the loop
RECURSIVE PoolCalls(_, _, _, _, _, _, _)
PoolCalls(rk, max, query, paper_titles, top_k, failing, kind) ==
    IF paper_titles = <<>> THEN <<>>
    ELSE RetrieveFromPaperResult(rk, max, query, paper_titles[1], top_k,
                                 IF paper_titles[1] \in failing THEN kind
                                 ELSE "none").calls
            \o PoolCalls(rk, max, query, Tail(paper_titles), top_k, failing, kind)

\* the cut without the sort
SortAndCutUnsorted(all_results, top_k) == Take(all_results, top_k)

\* retrieve_multi_paper: sort by score and take top_k
SortAndCut(all_results, top_k) == Take(SortByScore(all_results), top_k)

\* Retriever.retrieve_multi_paper; the titles in failing raise in the
\* collaborator call named by kind
RetrieveMultiPaperResult(rk, max, query, paper_titles, top_k, failing, kind) ==
    LET k == EffectiveTopK(top_k)
        all_results == PoolResults(rk, max, query, paper_titles, k, failing, kind)
        calls_ == PoolCalls(rk, max, query, paper_titles, k, failing, kind)
    IN  IF all_results = <<>> THEN NoContext(calls_, all_results)
        ELSE BuildContext(SortAndCut(all_results, k), max, calls_, all_results)

\* the documents the retriever's store holds
Document(title, i, section, text) ==
    [id |-> GenerateDocId(title, i), text |-> text, source |-> title,
     section |-> section]

Pool == {Document("A", 0, "", "aaaaaaaaaa"),
         Document("A", 1, "Method (section)", "aaaaaaaaaaaaaaaaaaaa"),
         Document("B", 0, "Intro (section)", "bbbbbbbbbb"),
         Document("B", 1, "Method (section)", "bbbbbbbbbbbbbbbbbbbb")}

\* similarity scores, in tenths
Scores == {2, 3, 9}

\* what a store of at most MaxHits records ranks for a query: distinct
\* records, best score first
RankedLists ==
    {rk \in SeqsUpTo([document : Pool, score : Scores], MaxHits) :
        /\ \A i, j \in 1..Len(rk) : i < j => rk[i].score >= rk[j].score
        /\ \A i, j \in 1..Len(rk) : i # j => rk[i].document # rk[j].document}

\* the queries: empty, whitespace only, and a question
Queries == {<<>>, <<" ", " ">>, <<"w", "h", "y", "?">>}

\* Retriever.max_context_length: no budget, one short chunk, two short chunks
MaxContextLengths == {0, 60, 130}

\* the top_k argument of a retrieval call; 0 stands for None
TopKArgs == {0, 1, 2}

\* the collaborator call of retrieve that raises
FailKinds == {"embed_text", "search"}

\* paper_titles of retrieve_multi_paper
TitleLists == {tl \in SeqsUpTo(Titles, 2) : \A i, j \in 1..Len(tl) : i # j => tl[i] # tl[j]}

NoCall == [op |-> "none", query |-> <<>>, filter |-> NoFilter, titles |-> <<>>,
           top_k |-> 0, failing |-> {}, kind |-> "none"]

RetrieverIdle ==
    /\ ranked = <<>>
    /\ max_context_length = 0
    /\ r_call = NoCall
    /\ context = Failure("none", <<>>)

\* a DocumentIndexer object before __init__ has run
NotCreated ==
    [pc |-> "new", papers |-> << >>, title |-> "A", text |-> <<>>,
     force |-> FALSE, chunks |-> <<>>, result |-> NoResult, saved |-> FALSE,
     overlap |-> FALSE]

Snapshot == [store |-> StoreState, papers |-> indexed_papers,
             file |-> index_metadata_file]

Finish(p, r) ==
    /\ pc' = [pc EXCEPT ![p] = "done"]
    /\ result' = [result EXCEPT ![p] = r]

Called(p, what, ok) ==
    calls' = [calls EXCEPT ![p] = Append(@, [call |-> what, ok |-> ok])]

\* WorkerQueue.__init__
QueueIdle ==
    /\ jobs = <<>>
    /\ job_queue = <<>>
    /\ unfinished_tasks = 0
    /\ processed_count = 0
    /\ failed_count = 0
    /\ is_running = FALSE
    /\ workers = [w \in Workers |-> [pc |-> "new", job |-> 0]]
    /\ shutdown_pc = "none"

\* everything but the chunker's configuration
IndexerIdle ==
    /\ provider \in {"faiss", "chromadb"}
    /\ documents_metadata = <<>>
    /\ index = <<>>
    /\ collection = {}
    /\ indexed_papers = << >>
    /\ index_metadata_file = << >>
    /\ now = 0
    /\ pc = [p \in Callers |-> "idle"]
    /\ paper_title = [p \in Callers |-> "A"]
    /\ latex_content = [p \in Callers |-> <<>>]
    /\ force_reindex = [p \in Callers |-> FALSE]
    /\ chunks = [p \in Callers |-> <<>>]
    /\ vector_docs = [p \in Callers |-> <<>>]
    /\ result = [p \in Callers |-> NoResult]
    /\ calls = [p \in Callers |-> <<>>]
    /\ op = [p \in Callers |-> "none"]
    /\ pre = [p \in Callers |-> Snapshot]
    /\ instances = [i \in Instances |-> NotCreated]
    /\ QueueIdle

IndexerInit ==
    /\ IndexerIdle
    /\ chunk_size = DefaultChunkSize
    /\ chunk_overlap = DefaultChunkOverlap

Init == IndexerInit /\ RetrieverIdle

\* index_paper entered: the "already indexed" check
IndexPaperCall(p, title, text, force) ==
    /\ pc[p] = "idle"
    /\ now < MaxCalls
    /\ now' = now + 1
    /\ paper_title' = [paper_title EXCEPT ![p] = title]
    /\ latex_content' = [latex_content EXCEPT ![p] = text]
    /\ force_reindex' = [force_reindex EXCEPT ![p] = force]
    /\ calls' = [calls EXCEPT ![p] = <<>>]
    /\ pre' = [pre EXCEPT ![p] = Snapshot]
    /\ chunks' = [chunks EXCEPT ![p] = <<>>]
    /\ vector_docs' = [vector_docs EXCEPT ![p] = <<>>]
    /\ op' = [op EXCEPT ![p] = "index_paper"]
    /\ IF AlreadyIndexed(indexed_papers, title, force)
       THEN Finish(p, Returned(indexed_papers[title].num_chunks))
       ELSE /\ pc' = [pc EXCEPT ![p] = "ip_delete"]
            /\ result' = [result EXCEPT ![p] = NoResult]
    /\ UNCHANGED <<storeVars, mapVars, chunkerVars, retrieverVars, instanceVars, queueVars>>

\* index_paper: "if reindexing, delete old chunks"
IndexPaperDelete(p) ==
    /\ pc[p] = "ip_delete"
    /\ IF force_reindex[p] /\ IsIndexed(indexed_papers, paper_title[p])
       THEN LET r == DeleteBySource(StoreState, paper_title[p]) IN
            \/ /\ SetStore(r.st)
               /\ Called(p, "delete_by_source", TRUE)
               /\ pc' = [pc EXCEPT ![p] = "ip_chunk"]
               /\ UNCHANGED result
            \/ \* faiss: _save raises after the in-memory rebuild
               /\ provider = "faiss" /\ r.deleted > 0
               /\ SetStore(r.st)
               /\ Called(p, "delete_by_source", FALSE)
               /\ Finish(p, Raised)
            \/ \* chromadb: collection.get or collection.delete raises
               /\ provider = "chromadb"
               /\ UNCHANGED <<documents_metadata, index, collection>>
               /\ Called(p, "delete_by_source", FALSE)
               /\ Finish(p, Raised)
       ELSE /\ pc' = [pc EXCEPT ![p] = "ip_chunk"]
            /\ UNCHANGED <<documents_metadata, index, collection, result, calls>>
    /\ UNCHANGED <<provider, mapVars, chunkerVars, now, paper_title,
                   latex_content, force_reindex, chunks, vector_docs, pre, op, retrieverVars, instanceVars, queueVars>>

\* index_paper, step 1: chunk the content; no chunks returns 0
IndexPaperChunk(p) ==
    /\ pc[p] = "ip_chunk"
    /\ Called(p, "chunk_latex", TRUE)
    /\ LET cs == ChunkLatex(latex_content[p], chunk_size, chunk_overlap) IN
       /\ chunks' = [chunks EXCEPT ![p] = cs]
       /\ IF cs = <<>>
          THEN Finish(p, Returned(0))
          ELSE /\ pc' = [pc EXCEPT ![p] = "ip_embed"]
               /\ UNCHANGED result
    /\ UNCHANGED <<storeVars, mapVars, chunkerVars, now, paper_title,
                   latex_content, force_reindex, vector_docs, pre, op, retrieverVars, instanceVars, queueVars>>

\* index_paper, steps 2 and 3: embed_batch, then build the vector documents
IndexPaperEmbed(p) ==
    /\ pc[p] = "ip_embed"
    /\ \/ /\ Called(p, "embed_batch", TRUE)
          /\ vector_docs' = [vector_docs EXCEPT ![p] =
                                BuildVectorDocs(paper_title[p], chunks[p])]
          /\ pc' = [pc EXCEPT ![p] = "ip_add"]
          /\ UNCHANGED result
       \/ \* the embedding provider raises
          /\ Called(p, "embed_batch", FALSE)
          /\ UNCHANGED vector_docs
          /\ Finish(p, Raised)
    /\ UNCHANGED <<storeVars, mapVars, chunkerVars, now, paper_title,
                   latex_content, force_reindex, chunks, pre, op, retrieverVars, instanceVars, queueVars>>

\* add_documents wrapped in a try/except that logs and goes on
IndexPaperAddSwallowsError(p) ==
    /\ pc[p] = "ip_add"
    /\ LET st == AddDocuments(StoreState, vector_docs[p]) IN
       \/ /\ SetStore(st)
          /\ Called(p, "add_documents", TRUE)
       \/ /\ UNCHANGED <<documents_metadata, index, collection>>
          /\ Called(p, "add_documents", FALSE)
    /\ pc' = [pc EXCEPT ![p] = "ip_update"]
    /\ UNCHANGED <<provider, mapVars, chunkerVars, now, paper_title,
                   latex_content, force_reindex, chunks, vector_docs, result,
                   pre, op, retrieverVars, instanceVars, queueVars>>

\* index_paper, step 4: vector_store.add_documents
IndexPaperAdd(p) ==
    /\ pc[p] = "ip_add"
    /\ LET st == AddDocuments(StoreState, vector_docs[p]) IN
       \/ /\ SetStore(st)
          /\ Called(p, "add_documents", TRUE)
          /\ pc' = [pc EXCEPT ![p] = "ip_update"]
          /\ UNCHANGED result
       \/ \* faiss: _save raises after index.add and the metadata appends
          /\ provider = "faiss"
          /\ SetStore(st)
          /\ Called(p, "add_documents", FALSE)
          /\ Finish(p, Raised)
       \/ \* index.add or collection.add raises
          /\ UNCHANGED <<documents_metadata, index, collection>>
          /\ Called(p, "add_documents", FALSE)
          /\ Finish(p, Raised)
    /\ UNCHANGED <<provider, mapVars, chunkerVars, now, paper_title,
                   latex_content, force_reindex, chunks, vector_docs, pre, op, retrieverVars, instanceVars, queueVars>>

\* index_paper, step 5: the entry is set in memory
IndexPaperUpdate(p) ==
    /\ pc[p] = "ip_update"
    /\ indexed_papers' = SetEntry(indexed_papers, paper_title[p],
                                  IndexEntry(chunks[p], now))
    /\ pc' = [pc EXCEPT ![p] = "ip_save"]
    /\ UNCHANGED <<storeVars, index_metadata_file, chunkerVars, now, paper_title,
                   latex_content, force_reindex, chunks, vector_docs, result,
                   calls, pre, op, retrieverVars, instanceVars, queueVars>>

\* _save_index_metadata: the map is dumped to the file; an exception is
\* logged and swallowed, after open(.., 'w') has or has not truncated the file
SaveIndexMetadata ==
    \/ index_metadata_file' = indexed_papers
    \/ index_metadata_file' = << >>
    \/ UNCHANGED index_metadata_file

\* index_paper: _save_index_metadata, return len(chunks)
IndexPaperSave(p) ==
    /\ pc[p] = "ip_save"
    /\ SaveIndexMetadata
    /\ Finish(p, Returned(Len(chunks[p])))
    /\ UNCHANGED <<storeVars, indexed_papers, chunkerVars, now, paper_title,
                   latex_content, force_reindex, chunks, vector_docs, calls, pre, op, retrieverVars, instanceVars, queueVars>>

\* delete_paper_index without the "not indexed" early return
DeletePaperIndexCallSkipsCheck(p, title) ==
    /\ pc[p] = "idle"
    /\ now < MaxCalls
    /\ now' = now + 1
    /\ paper_title' = [paper_title EXCEPT ![p] = title]
    /\ latex_content' = [latex_content EXCEPT ![p] = <<>>]
    /\ force_reindex' = [force_reindex EXCEPT ![p] = FALSE]
    /\ calls' = [calls EXCEPT ![p] = <<>>]
    /\ pre' = [pre EXCEPT ![p] = Snapshot]
    /\ chunks' = [chunks EXCEPT ![p] = <<>>]
    /\ vector_docs' = [vector_docs EXCEPT ![p] = <<>>]
    /\ op' = [op EXCEPT ![p] = "delete_paper_index"]
    /\ pc' = [pc EXCEPT ![p] = "dp_delete"]
    /\ result' = [result EXCEPT ![p] = NoResult]
    /\ UNCHANGED <<storeVars, mapVars, chunkerVars, retrieverVars, instanceVars, queueVars>>

\* delete_paper_index entered: an unindexed title returns 0
DeletePaperIndexCall(p, title) ==
    /\ pc[p] = "idle"
    /\ now < MaxCalls
    /\ now' = now + 1
    /\ paper_title' = [paper_title EXCEPT ![p] = title]
    /\ latex_content' = [latex_content EXCEPT ![p] = <<>>]
    /\ force_reindex' = [force_reindex EXCEPT ![p] = FALSE]
    /\ calls' = [calls EXCEPT ![p] = <<>>]
    /\ pre' = [pre EXCEPT ![p] = Snapshot]
    /\ chunks' = [chunks EXCEPT ![p] = <<>>]
    /\ vector_docs' = [vector_docs EXCEPT ![p] = <<>>]
    /\ op' = [op EXCEPT ![p] = "delete_paper_index"]
    /\ IF ~IsIndexed(indexed_papers, title)
       THEN Finish(p, Returned(0))
       ELSE /\ pc' = [pc EXCEPT ![p] = "dp_delete"]
            /\ result' = [result EXCEPT ![p] = NoResult]
    /\ UNCHANGED <<storeVars, mapVars, chunkerVars, retrieverVars, instanceVars, queueVars>>

\* delete_paper_index: deleted = vector_store.delete_by_source(paper_title)
DeletePaperIndexDelete(p) ==
    /\ pc[p] = "dp_delete"
    /\ LET r == DeleteBySource(StoreState, paper_title[p]) IN
       \/ /\ SetStore(r.st)
          /\ Called(p, "delete_by_source", TRUE)
          /\ pc' = [pc EXCEPT ![p] = "dp_remove"]
          /\ result' = [result EXCEPT ![p] = Returned(r.deleted)]
       \/ \* faiss: _save raises after the in-memory rebuild
          /\ provider = "faiss" /\ r.deleted > 0
          /\ SetStore(r.st)
          /\ Called(p, "delete_by_source", FALSE)
          /\ Finish(p, Raised)
       \/ \* chromadb: collection.get or collection.delete raises
          /\ provider = "chromadb"
          /\ UNCHANGED <<documents_metadata, index, collection>>
          /\ Called(p, "delete_by_source", FALSE)
          /\ Finish(p, Raised)
    /\ UNCHANGED <<provider, mapVars, chunkerVars, now, paper_title,
                   latex_content, force_reindex, chunks, vector_docs, pre, op, retrieverVars, instanceVars, queueVars>>

\* delete_paper_index without the "del self.indexed_papers[paper_title]"
DeletePaperIndexRemoveKeepsEntry(p) ==
    /\ pc[p] = "dp_remove"
    /\ pc' = [pc EXCEPT ![p] = "dp_save"]
    /\ UNCHANGED <<storeVars, mapVars, chunkerVars, now, paper_title,
                   latex_content, force_reindex, chunks, vector_docs, calls,
                   pre, op, result, retrieverVars, instanceVars, queueVars>>

\* delete_paper_index: del self.indexed_papers[paper_title]
DeletePaperIndexRemove(p) ==
    /\ pc[p] = "dp_remove"
    /\ IF IsIndexed(indexed_papers, paper_title[p])
       THEN /\ indexed_papers' = DelEntry(indexed_papers, paper_title[p])
            /\ pc' = [pc EXCEPT ![p] = "dp_save"]
            /\ UNCHANGED result
       ELSE \* KeyError
            /\ UNCHANGED indexed_papers
            /\ Finish(p, Raised)
    /\ UNCHANGED <<storeVars, index_metadata_file, chunkerVars, now, paper_title,
                   latex_content, force_reindex, chunks, vector_docs, calls,
                   pre, op, retrieverVars, instanceVars, queueVars>>

\* delete_paper_index: _save_index_metadata, return deleted
DeletePaperIndexSave(p) ==
    /\ pc[p] = "dp_save"
    /\ SaveIndexMetadata
    /\ pc' = [pc EXCEPT ![p] = "done"]
    /\ UNCHANGED <<storeVars, indexed_papers, chunkerVars, now, paper_title,
                   latex_content, force_reindex, chunks, vector_docs, result,
                   calls, pre, op, retrieverVars, instanceVars, queueVars>>

\* the caller takes the result of index_paper or delete_paper_index
Return(p) ==
    /\ pc[p] = "done"
    /\ pc' = [pc EXCEPT ![p] = "idle"]
    /\ UNCHANGED <<storeVars, mapVars, chunkerVars, now, paper_title,
                   latex_content, force_reindex, chunks, vector_docs, result,
                   calls, pre, op, retrieverVars, instanceVars, queueVars>>

Next ==
    \E p \in Callers :
        \/ \E title \in Titles, text \in Texts, force \in BOOLEAN :
               IndexPaperCall(p, title, text, force)
        \/ IndexPaperDelete(p)
        \/ IndexPaperChunk(p)
        \/ IndexPaperEmbed(p)
        \/ IndexPaperAdd(p)
        \/ IndexPaperUpdate(p)
        \/ IndexPaperSave(p)
        \/ \E title \in Titles : DeletePaperIndexCall(p, title)
        \/ DeletePaperIndexDelete(p)
        \/ DeletePaperIndexRemove(p)
        \/ DeletePaperIndexSave(p)
        \/ Return(p)

Spec == Init /\ [][Next]_vars

(***************************************************************************)
(* Retriever calls.  The store is given: ranked is fixed for a behaviour.  *)
(***************************************************************************)
indexerVars == <<storeVars, mapVars, chunkerVars, now, callVars, instanceVars, queueVars>>

\* retriever.retrieve(query, None, top_k)
Retrieve(query, top_k, fail) ==
    /\ r_call.op = "none"
    /\ r_call' = [NoCall EXCEPT !.op = "retrieve", !.query = query,
                                !.top_k = top_k, !.kind = fail]
    /\ context' = RetrieveResult(ranked, max_context_length, query, NoFilter,
                                 top_k, fail)
    /\ UNCHANGED <<indexerVars, ranked, max_context_length>>

\* retriever.retrieve_from_paper(query, paper_title, top_k)
RetrieveFromPaper(query, title, top_k, fail) ==
    /\ r_call.op = "none"
    /\ r_call' = [NoCall EXCEPT !.op = "retrieve_from_paper", !.query = query,
                                !.filter = title, !.top_k = top_k, !.kind = fail]
    /\ context' = RetrieveFromPaperResult(ranked, max_context_length, query,
                                          title, top_k, fail)
    /\ UNCHANGED <<indexerVars, ranked, max_context_length>>

\* retriever.retrieve_multi_paper(query, paper_titles, top_k)
RetrieveMultiPaper(query, titles, top_k, failing, kind) ==
    /\ r_call.op = "none"
    /\ r_call' = [NoCall EXCEPT !.op = "retrieve_multi_paper", !.query = query,
                                !.titles = titles, !.top_k = top_k,
                                !.failing = failing, !.kind = kind]
    /\ context' = RetrieveMultiPaperResult(ranked, max_context_length, query,
                                           titles, top_k, failing, kind)
    /\ UNCHANGED <<indexerVars, ranked, max_context_length>>

\* the caller takes the RetrievedContext (or the exception)
RetrieverReturn ==
    /\ r_call.op # "none"
    /\ r_call' = NoCall
    /\ context' = Failure("none", <<>>)
    /\ UNCHANGED <<indexerVars, ranked, max_context_length>>

RetrieverInit ==
    /\ IndexerInit
    /\ ranked \in RankedLists
    /\ max_context_length \in MaxContextLengths
    /\ r_call = NoCall
    /\ context = Failure("none", <<>>)

\* a collaborator can raise only when it is called: not for a query that
\* retrieve rejects, and in retrieve_multi_paper only for a title of the list
FailsFor(query) ==
    IF query = <<>> \/ Strip(query) = <<>> THEN {"none"} ELSE FailKinds \cup {"none"}

FailingFor(query, titles) ==
    IF query = <<>> \/ Strip(query) = <<>> THEN {{}} ELSE SUBSET SeqToSet(titles)

KindsFor(failing) == IF failing = {} THEN {"none"} ELSE FailKinds

\* the calls a client can make when no call is running
RetrieveCall ==
    /\ r_call.op = "none"
    /\ \E query \in Queries, top_k \in TopKArgs :
          \E fail \in FailsFor(query) : Retrieve(query, top_k, fail)

RetrieveFromPaperCall ==
    /\ r_call.op = "none"
    /\ \E query \in Queries, title \in Titles, top_k \in TopKArgs :
          \E fail \in FailsFor(query) : RetrieveFromPaper(query, title, top_k, fail)

RetrieveMultiPaperCall ==
    /\ r_call.op = "none"
    /\ \E query \in Queries, titles \in TitleLists, top_k \in TopKArgs :
          \E failing \in FailingFor(query, titles) :
             \E kind \in KindsFor(failing) :
                RetrieveMultiPaper(query, titles, top_k, failing, kind)

RetrieverNext ==
    \/ RetrieveCall
    \/ RetrieveFromPaperCall
    \/ RetrieveMultiPaperCall
    \/ RetrieverReturn

RetrieverSpec == RetrieverInit /\ [][RetrieverNext]_vars

(***************************************************************************)
(* Direct calls on the vector store: add_documents and delete_by_source of *)
(* the configured back end, each one step, made by a caller that is not    *)
(* the indexer.                                                            *)
(***************************************************************************)
\* FAISSVectorStore.search without top_k cut: the payloads found at the
\* positions of the vectors the index holds, after the source filter
FaissSearchable(md, idx, filter) ==
    {md[i] : i \in {j \in 1..Min(Len(idx), Len(md)) :
                       filter = NoFilter \/ md[j].source = filter}}

\* ChromaDBVectorStore.search without top_k cut
ChromaSearchable(coll, filter) ==
    {c \in coll : filter = NoFilter \/ c.source = filter}

\* the records VectorStore.search can return in store state st
Searchable(st, filter) ==
    IF provider = "faiss" THEN FaissSearchable(st[1], st[2], filter)
    ELSE ChromaSearchable(st[3], filter)

\* the ids stored in store state st, one per stored vector or payload
StoredIds(st) ==
    IF provider = "faiss" THEN st[2]
    ELSE LET RECURSIVE AsSeq(_)
             AsSeq(S) == IF S = {} THEN <<>>
                         ELSE LET x == CHOOSE y \in S : TRUE
                              IN  <<x.id>> \o AsSeq(S \ {x})
         IN  AsSeq(st[3])

\* the record lists handed to add_documents
DocLists ==
    {BuildVectorDocs(t, ChunkText(x, DefaultChunkSize, DefaultChunkOverlap)) :
        t \in Titles, x \in Texts}

\* vector_store.add_documents(documents)
StoreAddDocuments(p, documents) ==
    /\ pc[p] = "idle"
    /\ now < MaxCalls
    /\ now' = now + 1
    /\ op' = [op EXCEPT ![p] = "add_documents"]
    /\ vector_docs' = [vector_docs EXCEPT ![p] = documents]
    /\ pre' = [pre EXCEPT ![p] = Snapshot]
    /\ calls' = [calls EXCEPT ![p] = <<>>]
    /\ LET st == AddDocuments(StoreState, documents) IN
       \/ /\ SetStore(st)
          /\ Finish(p, Returned(0))
       \/ \* faiss: _save raises after index.add and the metadata appends
          /\ provider = "faiss" /\ documents # <<>>
          /\ SetStore(st)
          /\ Finish(p, Raised)
       \/ \* index.add or collection.add raises
          /\ documents # <<>>
          /\ UNCHANGED <<documents_metadata, index, collection>>
          /\ Finish(p, Raised)
    /\ UNCHANGED <<provider, mapVars, chunkerVars, paper_title, latex_content,
                   force_reindex, chunks, retrieverVars, instanceVars, queueVars>>

\* vector_store.delete_by_source(source)
StoreDeleteBySource(p, source) ==
    /\ pc[p] = "idle"
    /\ now < MaxCalls
    /\ now' = now + 1
    /\ op' = [op EXCEPT ![p] = "delete_by_source"]
    /\ paper_title' = [paper_title EXCEPT ![p] = source]
    /\ pre' = [pre EXCEPT ![p] = Snapshot]
    /\ calls' = [calls EXCEPT ![p] = <<>>]
    /\ LET r == DeleteBySource(StoreState, source) IN
       \/ /\ SetStore(r.st)
          /\ Finish(p, Returned(r.deleted))
       \/ \* faiss: _save raises after the in-memory rebuild
          /\ provider = "faiss" /\ r.deleted > 0
          /\ SetStore(r.st)
          /\ Finish(p, Raised)
       \/ \* chromadb: collection.get or collection.delete raises
          /\ provider = "chromadb"
          /\ UNCHANGED <<documents_metadata, index, collection>>
          /\ Finish(p, Raised)
    /\ UNCHANGED <<provider, mapVars, chunkerVars, latex_content, force_reindex,
                   chunks, vector_docs, retrieverVars, instanceVars, queueVars>>

StoreNext ==
    \E p \in Callers :
        \/ \E documents \in DocLists : StoreAddDocuments(p, documents)
        \/ \E source \in Titles : StoreDeleteBySource(p, source)
        \/ Return(p)

StoreSpec == Init /\ [][StoreNext]_vars

(***************************************************************************)
(* A reader beside the indexer: another thread calls retrieve_from_paper   *)
(* while index_paper or delete_paper_index runs step by step.  The code    *)
(* takes no lock in either, so the read can fall between any two steps.    *)
(***************************************************************************)
\* similarity of every stored vector to the reader's query, in tenths
ReaderScore == 9

\* what the store ranks for the reader's query: for faiss the payloads at the
\* positions of the vectors in the index, for chromadb the collection
StoreRanked(st) ==
    IF provider = "faiss"
    THEN [i \in 1..Min(Len(st[2]), Len(st[1])) |->
             [document |-> st[1][i], score |-> ReaderScore]]
    ELSE LET RECURSIVE AsHits(_)
             AsHits(S) == IF S = {} THEN <<>>
                          ELSE LET x == CHOOSE y \in S : TRUE
                               IN  <<[document |-> x, score |-> ReaderScore]>>
                                      \o AsHits(S \ {x})
         IN  AsHits(st[3])

\* retriever.retrieve_from_paper(query, title) up to its read of the store:
\* embed_text, then vector_store.search(top_k * 2, {"source": title}); the
\* hits read are kept in ranked
ReadFromPaper(title) ==
    /\ r_call' = [NoCall EXCEPT !.op = "retrieve_from_paper",
                                !.query = <<"w", "h", "y", "?">>,
                                !.filter = title]
    /\ ranked' = Search(StoreRanked(StoreState), DefaultTopK * 2, title)
    /\ UNCHANGED <<indexerVars, max_context_length, context>>

ReaderNext ==
    \/ Next
    \/ \E title \in Titles : ReadFromPaper(title)

ReaderSpec == Init /\ [][ReaderNext]_vars

(***************************************************************************)
(* Several DocumentIndexer objects over one metadata_dir (two processes,   *)
(* or two objects in one): each keeps its own indexed_papers, loaded once  *)
(* in __init__, and dumps it to the shared indexed_papers.json.  The       *)
(* store calls of index_paper (lines 80-132) are one step here; the map    *)
(* update and the save are steps of their own.                             *)
(***************************************************************************)
Running(i) == instances[i].pc \in {"store", "update", "save"}

\* DocumentIndexer.__init__: self.indexed_papers = self._load_index_metadata()
InstanceCreate(i) ==
    /\ instances[i].pc = "new"
    /\ instances' = [instances EXCEPT ![i].pc = "idle",
                                      ![i].papers = index_metadata_file]
    /\ UNCHANGED <<storeVars, mapVars, chunkerVars, now, callVars, retrieverVars, queueVars>>

\* index_paper entered on object i: the "already indexed" check
InstanceIndexCall(i, title, text, force) ==
    /\ instances[i].pc = "idle"
    /\ now < MaxCalls
    /\ now' = now + 1
    /\ LET others == {j \in Instances \ {i} : Running(j)}
           mine == [instances[i] EXCEPT !.title = title, !.text = text,
                                        !.force = force, !.chunks = <<>>,
                                        !.saved = FALSE,
                                        !.overlap = others # {}]
       IN  instances' =
             [j \in Instances |->
                IF j = i
                THEN IF AlreadyIndexed(instances[i].papers, title, force)
                     THEN [mine EXCEPT !.pc = "done",
                              !.result = Returned(instances[i].papers[title].num_chunks)]
                     ELSE [mine EXCEPT !.pc = "store", !.result = NoResult]
                ELSE IF j \in others /\ ~AlreadyIndexed(instances[i].papers, title, force)
                     THEN [instances[j] EXCEPT !.overlap = TRUE]
                     ELSE instances[j]]
    /\ UNCHANGED <<storeVars, mapVars, chunkerVars, callVars, retrieverVars, queueVars>>

\* index_paper on object i, lines 80-132: delete_by_source when re-indexing,
\* chunk_latex, embed_batch, add_documents
InstanceIndexStore(i) ==
    /\ instances[i].pc = "store"
    /\ LET me == instances[i]
           cs == ChunkLatex(me.text, chunk_size, chunk_overlap)
           cleared == IF me.force /\ IsIndexed(me.papers, me.title)
                      THEN DeleteBySource(StoreState, me.title).st
                      ELSE StoreState
       IN  \/ /\ cs = <<>>
              /\ SetStore(cleared)
              /\ instances' = [instances EXCEPT ![i].pc = "done",
                                                ![i].result = Returned(0)]
           \/ /\ cs # <<>>
              /\ SetStore(AddDocuments(cleared, BuildVectorDocs(me.title, cs)))
              /\ instances' = [instances EXCEPT ![i].pc = "update",
                                                ![i].chunks = cs]
           \/ \* embed_batch or add_documents raises
              /\ cs # <<>>
              /\ SetStore(cleared)
              /\ instances' = [instances EXCEPT ![i].pc = "done",
                                                ![i].result = Raised]
    /\ UNCHANGED <<provider, mapVars, chunkerVars, now, callVars, retrieverVars, queueVars>>

\* index_paper on object i, step 5: self.indexed_papers[paper_title] = {...}
InstanceIndexUpdate(i) ==
    /\ instances[i].pc = "update"
    /\ instances' = [instances EXCEPT
                        ![i].pc = "save",
                        ![i].papers = SetEntry(@, instances[i].title,
                                               IndexEntry(instances[i].chunks, now))]
    /\ UNCHANGED <<storeVars, mapVars, chunkerVars, now, callVars, retrieverVars, queueVars>>

\* index_paper on object i: _save_index_metadata dumps the object's map to
\* the shared file (or fails, logged and swallowed), return len(chunks)
InstanceIndexSave(i) ==
    /\ instances[i].pc = "save"
    /\ \/ /\ index_metadata_file' = instances[i].papers
          /\ instances' = [instances EXCEPT ![i].pc = "done", ![i].saved = TRUE,
                              ![i].result = Returned(Len(instances[i].chunks))]
       \/ /\ index_metadata_file' \in {<< >>, index_metadata_file}
          /\ instances' = [instances EXCEPT ![i].pc = "done",
                              ![i].result = Returned(Len(instances[i].chunks))]
    /\ UNCHANGED <<storeVars, indexed_papers, chunkerVars, now, callVars,
                   retrieverVars, queueVars>>

\* the caller of object i takes the result
InstanceReturn(i) ==
    /\ instances[i].pc = "done"
    /\ instances' = [instances EXCEPT ![i].pc = "idle"]
    /\ UNCHANGED <<storeVars, mapVars, chunkerVars, now, callVars, retrieverVars, queueVars>>

InstancesNext ==
    \E i \in Instances :
        \/ InstanceCreate(i)
        \/ \E title \in Titles, text \in Texts, force \in BOOLEAN :
               InstanceIndexCall(i, title, text, force)
        \/ InstanceIndexStore(i)
        \/ InstanceIndexUpdate(i)
        \/ InstanceIndexSave(i)
        \/ InstanceReturn(i)

InstancesSpec == Init /\ [][InstancesNext]_vars

(***************************************************************************)
(* The indexer called by a caller that may leave the title empty.          *)
(***************************************************************************)
\* index_paper(paper_title="", ...)
MissingTitle == ""

TitledNext ==
    \/ Next
    \/ \E p \in Callers, text \in Texts, force \in BOOLEAN :
           IndexPaperCall(p, MissingTitle, text, force)

TitledSpec == Init /\ [][TitledNext]_vars

(***************************************************************************)
(* The indexer with collaborators that never fail: the steps of Next in    *)
(* which no embedding provider or vector store call raises.                *)
(***************************************************************************)
QuietNext ==
    /\ Next
    /\ \A p \in Callers : \A i \in 1..Len(calls'[p]) : calls'[p][i].ok

QuietSpec == Init /\ [][QuietNext]_vars

(***************************************************************************)
(* Direct calls of chunker.chunk_text, for chunkers of several             *)
(* configurations.                                                         *)
(***************************************************************************)
\* sentence lengths, in characters: shorter and longer than a chunk
ChunkSentenceLens == {1, 3, 7}
\* TextChunker.chunk_size
ChunkSizes == {6, 10}
\* TextChunker.chunk_overlap: none, less than, equal to and more than a chunk
ChunkOverlaps == {0, 3, 6, 12}
\* the texts with markers handed to chunk_latex: markers of two titles and
\* two levels, with a body of no, one or two sentences
LatexTexts ==
    LET Markers == {[title |-> "Intro", level |-> "section"],
                    [title |-> "Method", level |-> "section"],
                    [title |-> "Intro", level |-> "subsection"]}
        Bodies == {Sentences(lens) : lens \in {<<>>, <<3>>, <<3, 7>>}}
    IN  SeqsUpTo({[title |-> m.title, level |-> m.level, body |-> b] :
                     m \in Markers, b \in Bodies}, MaxSections) \ {<<>>}

\* the texts handed to chunk_text
ChunkTexts ==
    {Sentences(lens) : lens \in SeqsUpTo(ChunkSentenceLens, MaxChunkSentences)}

ChunkerInit ==
    /\ IndexerIdle
    /\ RetrieverIdle
    /\ chunk_size \in ChunkSizes
    /\ chunk_overlap \in ChunkOverlaps

\* chunker.chunk_text(text)
ChunkTextCall(p, text) ==
    /\ pc[p] = "idle"
    /\ op' = [op EXCEPT ![p] = "chunk_text"]
    /\ latex_content' = [latex_content EXCEPT ![p] = text]
    /\ chunks' = [chunks EXCEPT ![p] = ChunkText(text, chunk_size, chunk_overlap)]
    /\ pc' = [pc EXCEPT ![p] = "done"]
    /\ UNCHANGED <<storeVars, mapVars, chunkerVars, now, paper_title,
                   force_reindex, vector_docs, result, calls, pre,
                   retrieverVars, instanceVars, queueVars>>

\* chunker.chunk_latex(latex_text), the first call of the caller
ChunkLatexCall(p, latex_text) ==
    /\ pc[p] = "idle"
    /\ op[p] = "none"
    /\ op' = [op EXCEPT ![p] = "chunk_latex"]
    /\ latex_content' = [latex_content EXCEPT ![p] = latex_text]
    /\ chunks' = [chunks EXCEPT ![p] = ChunkLatex(latex_text, chunk_size, chunk_overlap)]
    /\ pc' = [pc EXCEPT ![p] = "done"]
    /\ UNCHANGED <<storeVars, mapVars, chunkerVars, now, paper_title,
                   force_reindex, vector_docs, result, calls, pre,
                   retrieverVars, instanceVars, queueVars>>

ChunkerNext ==
    \E p \in Callers :
        \/ \E text \in ChunkTexts : ChunkTextCall(p, text)
        \/ Return(p)

ChunkerSpec == ChunkerInit /\ [][ChunkerNext]_vars

\* Direct calls of chunker.chunk_latex; the chunker keeps nothing between
\* calls, so one call per behaviour covers them all.
LatexNext ==
    \E p \in Callers :
        \/ \E latex_text \in LatexTexts : ChunkLatexCall(p, latex_text)
        \/ Return(p)

LatexSpec == ChunkerInit /\ [][LatexNext]_vars

(***************************************************************************)
(* Worker queue (services/graph-service/app/worker_queue.py).  The tasks   *)
(* run on one asyncio event loop, so the statements between two awaits     *)
(* that suspend are one step.  job_queue is the list behind                *)
(* asyncio.PriorityQueue: a binary heap of (-priority, job) entries kept   *)
(* by heapq (CPython's _heapq).  A job is named by its place in jobs.      *)
(* Comparing two entries of the same priority compares the GraphJob        *)
(* objects, which define no order: TypeError.                              *)
(***************************************************************************)
\* _siftdown: the entry at pos moves towards the root while it is smaller
\* than its parent; ok is FALSE when the comparison raised
RECURSIVE SiftDown(_, _)
SiftDown(heap, pos) ==
    IF pos = 1 THEN [heap |-> heap, ok |-> TRUE]
    ELSE LET parentpos == pos \div 2 IN
         IF heap[pos][1] = heap[parentpos][1] THEN [heap |-> heap, ok |-> FALSE]
         ELSE IF heap[pos][1] < heap[parentpos][1]
         THEN SiftDown([heap EXCEPT ![pos] = heap[parentpos],
                                    ![parentpos] = heap[pos]], parentpos)
         ELSE [heap |-> heap, ok |-> TRUE]

\* _siftup: the smaller child moves up until pos is a leaf, then the entry
\* at pos is sifted down again
RECURSIVE SiftUp(_, _)
SiftUp(heap, pos) ==
    LET childpos == 2 * pos
        rightpos == childpos + 1
    IN  IF childpos > Len(heap) THEN SiftDown(heap, pos)
        ELSE IF rightpos <= Len(heap) /\ heap[childpos][1] = heap[rightpos][1]
        THEN [heap |-> heap, ok |-> FALSE]
        ELSE LET c == IF rightpos <= Len(heap) /\ heap[rightpos][1] < heap[childpos][1]
                      THEN rightpos ELSE childpos
             IN  SiftUp([heap EXCEPT ![pos] = heap[c], ![c] = heap[pos]], c)

\* start()
Start ==
    /\ ~is_running
    /\ shutdown_pc = "none"
    /\ \A w \in Workers : workers[w].pc = "new"
    /\ is_running' = TRUE
    /\ workers' = [w \in Workers |-> [pc |-> "ready", job |-> 0]]
    /\ UNCHANGED <<jobs, job_queue, unfinished_tasks, processed_count,
                   failed_count, shutdown_pc>>
    /\ UNCHANGED <<storeVars, mapVars, chunkerVars, now, callVars, retrieverVars,
                   instanceVars>>

\* submit_job: the job is recorded, then put on the queue (heappush: the
\* entry is appended, then sifted); when put raises, the entry is in the
\* list but not counted as unfinished
SubmitJob(priority) ==
    /\ LET job_id == Len(jobs) + 1
           r == SiftDown(Append(job_queue, <<0 - priority, job_id>>),
                         Len(job_queue) + 1)
       IN  /\ jobs' = Append(jobs, [priority |-> priority, status |-> "pending"])
           /\ job_queue' = r.heap
           /\ unfinished_tasks' = IF r.ok THEN unfinished_tasks + 1
                                  ELSE unfinished_tasks
    /\ UNCHANGED <<processed_count, failed_count, is_running, workers, shutdown_pc>>
    /\ UNCHANGED <<storeVars, mapVars, chunkerVars, now, callVars, retrieverVars,
                   instanceVars>>

\* _worker: job_queue.get() with an entry in the queue (heappop), then the
\* job is marked PROCESSING; when heappop raises, the root entry it had
\* taken out is dropped and the loop goes on
WorkerGet(w) ==
    /\ \/ workers[w].pc = "ready" /\ is_running
       \/ workers[w].pc = "waiting"
    /\ job_queue # <<>>
    /\ LET n == Len(job_queue)
           lastelt == job_queue[n]
           rest == SubSeq(job_queue, 1, n - 1)
           returnitem == IF rest = <<>> THEN lastelt ELSE rest[1]
           r == IF rest = <<>> THEN [heap |-> <<>>, ok |-> TRUE]
                ELSE SiftUp([rest EXCEPT ![1] = lastelt], 1)
       IN  /\ job_queue' = r.heap
           /\ IF r.ok
              THEN /\ workers' = [workers EXCEPT
                                     ![w] = [pc |-> "processing", job |-> returnitem[2]]]
                   /\ jobs' = [jobs EXCEPT ![returnitem[2]].status = "processing"]
              ELSE /\ workers' = [workers EXCEPT ![w].pc = "ready"]
                   /\ UNCHANGED jobs
    /\ UNCHANGED <<unfinished_tasks, processed_count, failed_count, is_running,
                   shutdown_pc>>
    /\ UNCHANGED <<storeVars, mapVars, chunkerVars, now, callVars, retrieverVars,
                   instanceVars>>

\* _worker: job_queue.get() on an empty queue suspends the task; after
\* timeout=1.0 it is back at the loop condition
WorkerWait(w) ==
    /\ job_queue = <<>>
    /\ \/ /\ workers[w].pc = "ready" /\ is_running
          /\ workers' = [workers EXCEPT ![w].pc = "waiting"]
       \/ /\ workers[w].pc = "waiting"
          /\ workers' = [workers EXCEPT ![w].pc = "ready"]
    /\ UNCHANGED <<jobs, job_queue, unfinished_tasks, processed_count,
                   failed_count, is_running, shutdown_pc>>
    /\ UNCHANGED <<storeVars, mapVars, chunkerVars, now, callVars, retrieverVars,
                   instanceVars>>

\* _worker: _process_job returns or raises, the counters, then task_done()
\* (which raises ValueError, caught and logged, when nothing is unfinished)
WorkerFinish(w) ==
    /\ workers[w].pc = "processing"
    /\ \/ /\ jobs' = [jobs EXCEPT ![workers[w].job].status = "completed"]
          /\ processed_count' = processed_count + 1
          /\ UNCHANGED failed_count
       \/ /\ jobs' = [jobs EXCEPT ![workers[w].job].status = "failed"]
          /\ failed_count' = failed_count + 1
          /\ UNCHANGED processed_count
    /\ unfinished_tasks' = IF unfinished_tasks > 0 THEN unfinished_tasks - 1 ELSE 0
    /\ workers' = [workers EXCEPT ![w] = [pc |-> "ready", job |-> 0]]
    /\ UNCHANGED <<job_queue, is_running, shutdown_pc>>
    /\ UNCHANGED <<storeVars, mapVars, chunkerVars, now, callVars, retrieverVars,
                   instanceVars>>

\* _worker: "while self.is_running" is false
WorkerStop(w) ==
    /\ workers[w].pc = "ready"
    /\ ~is_running
    /\ workers' = [workers EXCEPT ![w].pc = "stopped"]
    /\ UNCHANGED <<jobs, job_queue, unfinished_tasks, processed_count,
                   failed_count, is_running, shutdown_pc>>
    /\ UNCHANGED <<storeVars, mapVars, chunkerVars, now, callVars, retrieverVars,
                   instanceVars>>

\* shutdown(): is_running = False
Shutdown ==
    /\ shutdown_pc = "none"
    /\ is_running' = FALSE
    /\ shutdown_pc' = "gather"
    /\ UNCHANGED <<jobs, job_queue, unfinished_tasks, processed_count,
                   failed_count, workers>>
    /\ UNCHANGED <<storeVars, mapVars, chunkerVars, now, callVars, retrieverVars,
                   instanceVars>>

\* shutdown(): asyncio.gather over self.workers returns when every task has
\* ended; job_queue.join() returns when nothing is unfinished
ShutdownWait ==
    /\ \/ /\ shutdown_pc = "gather"
          /\ \A w \in Workers : workers[w].pc \in {"new", "stopped"}
          /\ shutdown_pc' = "join"
       \/ /\ shutdown_pc = "join"
          /\ unfinished_tasks = 0
          /\ shutdown_pc' = "returned"
    /\ UNCHANGED <<jobs, job_queue, unfinished_tasks, processed_count,
                   failed_count, is_running, workers>>
    /\ UNCHANGED <<storeVars, mapVars, chunkerVars, now, callVars, retrieverVars,
                   instanceVars>>

QueueNext ==
    \/ Start
    \/ \E priority \in JobPriorities : Len(jobs) < MaxJobs /\ SubmitJob(priority)
    \/ \E w \in Workers : WorkerGet(w)
    \/ \E w \in Workers : WorkerWait(w)
    \/ \E w \in Workers : WorkerFinish(w)
    \/ \E w \in Workers : WorkerStop(w)
    \/ Shutdown
    \/ ShutdownWait

\* The event loop runs every task that can run: a worker task and the
\* shutdown coroutine take their next step, and _process_job returns or
\* raises.  Nothing obliges a client to call start, submit_job or shutdown.
QueueSpec ==
    /\ Init
    /\ [][QueueNext]_vars
    /\ \A w \in Workers :
          WF_vars(WorkerGet(w) \/ WorkerWait(w) \/ WorkerFinish(w) \/ WorkerStop(w))
    /\ WF_vars(ShutdownWait)

\* One worker task at work on a longer queue, every job completing, no
\* shutdown: the order in which the jobs leave the queue.
PriorityNext ==
    \/ Start
    \/ \E priority \in JobPriorities :
          Len(jobs) < MaxPriorityJobs /\ SubmitJob(priority)
    \/ WorkerGet(1)
    \/ WorkerFinish(1) /\ failed_count' = failed_count

\* the vector store plays no part here: one provider
PriorityInit == Init /\ provider = "faiss"

PrioritySpec == PriorityInit /\ [][PriorityNext]_vars

(***************************************************************************)
(* Indexer claims                                                          *)
(***************************************************************************)
IndexPaperDone(p) == pc[p] = "done" /\ op[p] = "index_paper"

\* every record of docs is stored
Stored(docs) ==
    \A i \in 1..Len(docs) :
        IF provider = "faiss"
        THEN \E k \in 1..Len(documents_metadata) : documents_metadata[k] = docs[i]
        ELSE docs[i] \in collection

\* every title with an entry has exactly num_chunks records tagged with it
Consistent(st, papers) ==
    \A t \in DOMAIN papers : RecordsIn(st, t) = papers[t].num_chunks

\* C1: index_paper without force_reindex on a title that has an entry returns
\* the stored num_chunks whatever the text, calls neither the chunker, the
\* embedding provider nor the store, and leaves the store (and its count()),
\* the in-memory map and the file as they were when it was called.
C1_IdempotentIndexing ==
    \A p \in Callers :
        (IndexPaperDone(p) /\ ~force_reindex[p]
            /\ IsIndexed(pre[p].papers, paper_title[p]))
        => /\ result[p] = Returned(pre[p].papers[paper_title[p]].num_chunks)
           /\ calls[p] = <<>>
           /\ StoreState = pre[p].store
           /\ Count = CountIn(pre[p].store)
           /\ indexed_papers = pre[p].papers
           /\ index_metadata_file = pre[p].file

\* an unforced call on an indexed title whose new text chunks differently
C1_Witness ==
    \E p \in Callers :
        /\ IndexPaperDone(p) /\ ~force_reindex[p]
        /\ IsIndexed(pre[p].papers, paper_title[p])
        /\ result[p].kind = "returned"
        /\ Len(ChunkLatex(latex_content[p], chunk_size, chunk_overlap))
               # result[p].value

\* C2: after a successful index_paper with force_reindex on a title that had
\* an entry, with a text of n > 0 chunks, the store holds exactly n records
\* whose source is the title.
C2_NoOrphansOnReindex ==
    \A p \in Callers :
        (IndexPaperDone(p) /\ force_reindex[p]
            /\ IsIndexed(pre[p].papers, paper_title[p])
            /\ result[p].kind = "returned" /\ result[p].value > 0)
        => /\ RecordsOf(paper_title[p]) = result[p].value
           /\ result[p].value = Len(chunks[p])

\* a forced re-index that shrank the title from 2 stored records to 1
C2_Witness ==
    \E p \in Callers :
        /\ IndexPaperDone(p) /\ force_reindex[p]
        /\ IsIndexed(pre[p].papers, paper_title[p])
        /\ RecordsIn(pre[p].store, paper_title[p]) = 2
        /\ pre[p].papers[paper_title[p]].num_chunks = 2
        /\ result[p] = Returned(1)

\* C3: during index_paper the map (in memory or on file) changes only in the
\* steps after add_documents of this call returned, with the call's records
\* stored; and when the call raises, map and file are what they were when it
\* was called.
C3_EntryOnlyAfterAdd ==
    [][\A p \in Callers :
          op'[p] = "index_paper" =>
            /\ (indexed_papers' # indexed_papers
                   \/ index_metadata_file' # index_metadata_file)
               => /\ pc[p] \in {"ip_update", "ip_save"}
                  /\ calls[p] # <<>>
                  /\ calls[p][Len(calls[p])] = [call |-> "add_documents", ok |-> TRUE]
                  /\ Stored(vector_docs[p])
            /\ (pc'[p] = "done" /\ result'[p].kind = "raised")
               => /\ indexed_papers' = pre'[p].papers
                  /\ index_metadata_file' = pre'[p].file]_vars

\* an index_paper call that raised in add_documents, and one whose entry is
\* being written
C3_Witness ==
    \E p \in Callers :
        /\ IndexPaperDone(p) /\ result[p].kind = "raised"
        /\ calls[p] # <<>>
        /\ calls[p][Len(calls[p])] = [call |-> "add_documents", ok |-> FALSE]
        /\ IsIndexed(indexed_papers, paper_title[p])

\* C4: an index_paper call that raises in embed_batch or add_documents leaves
\* every title that has an entry with exactly num_chunks records, when that
\* was so before the call.
C4_FailureKeepsEntriesValid ==
    \A p \in Callers :
        (IndexPaperDone(p) /\ result[p].kind = "raised"
            /\ calls[p][Len(calls[p])].call \in {"embed_batch", "add_documents"}
            /\ Consistent(pre[p].store, pre[p].papers))
        => Consistent(StoreState, indexed_papers)


(***************************************************************************)
(* Retriever claims                                                        *)
(***************************************************************************)
\* _build_context ran for the call that has just finished
Built == context.status = "ok" /\ context.filtered # <<>>

RetrieveDone ==
    r_call.op \in {"retrieve", "retrieve_from_paper"} /\ context.status = "ok"

MultiDone == r_call.op = "retrieve_multi_paper" /\ context.status = "ok"

\* the positions of the candidates that reach the threshold
Passing(results) == {i \in 1..Len(results) : results[i].score >= ScoreThreshold}

\* the position of the n-th such candidate
NthPassing(results, n) ==
    CHOOSE i \in Passing(results) :
        Cardinality({m \in Passing(results) : m <= i}) = n

\* header+text length of the first n hits, numbered from 1
RECURSIVE Cumulative(_, _)
Cumulative(hits, n) ==
    IF n = 0 THEN 0 ELSE Cumulative(hits, n - 1) + Len(ChunkTextOf(n, hits[n]))

\* the length of the longest prefix of hits that stays within max
LongestPrefix(hits, max) ==
    CHOOSE n \in 0..Len(hits) :
        /\ Cumulative(hits, n) <= max
        /\ n < Len(hits) => Cumulative(hits, n + 1) > max

SeqBag(q) == [x \in SeqToSet(q) |-> Cardinality({i \in 1..Len(q) : q[i] = x})]

\* what the caller sees of a RetrievedContext
Observable(c) ==
    [status |-> c.status, chunks |-> c.chunks, context_text |-> c.context_text,
     sources |-> c.sources, sections |-> c.sections,
     total_chunks |-> c.total_chunks]

\* C5: in retrieve and retrieve_from_paper the hits handed to context
\* assembly are exactly the store's candidates with score >= the threshold,
\* in the store's order, cut to the first top_k; and no RetrievedContext of
\* any operation holds a hit below the threshold or more than top_k hits.
C5_ThresholdFiltering ==
    /\ RetrieveDone =>
          LET results == context.results
              considered == context.filtered
              k == EffectiveTopK(r_call.top_k)
          IN  /\ Len(considered) = Min(Cardinality(Passing(results)), k)
              /\ \A n \in 1..Len(considered) :
                    considered[n] = results[NthPassing(results, n)]
              /\ context.chunks = Take(considered, Len(context.chunks))
    /\ context.status = "ok" =>
          /\ \A i \in 1..Len(context.chunks) :
                context.chunks[i].score >= ScoreThreshold
          /\ Len(context.chunks) <= EffectiveTopK(r_call.top_k)

\* scores 0.9, 0.3, 0.2 against the threshold 0.3 give the first two hits
C5_Witness ==
    /\ r_call.op = "retrieve" /\ context.status = "ok"
    /\ Len(context.results) = 3
    /\ context.results[1].score = 9
    /\ context.results[2].score = 3
    /\ context.results[3].score = 2
    /\ context.chunks = SubSeq(context.results, 1, 2)

\* C6: with max_context_length > 0 the context text of retrieve,
\* retrieve_from_paper and retrieve_multi_paper is at most max_context_length
\* long, and it is the included chunks' header+text, each one whole.
C6_ContextBudget ==
    (max_context_length > 0 /\ Built) =>
        /\ Len(context.context_text) <= max_context_length
        /\ Cumulative(context.chunks, Len(context.chunks)) <= max_context_length
        /\ context.context_text =
              Join([i \in 1..Len(context.chunks) |->
                       ChunkTextOf(i, context.chunks[i])])

\* the budget cut a context that holds a chunk
C6_Witness ==
    /\ max_context_length > 0 /\ Built
    /\ r_call.op = "retrieve_multi_paper"
    /\ Len(context.chunks) >= 1
    /\ Len(context.chunks) < Len(context.filtered)

\* C7 as stated: the included hits are the longest prefix of the surviving
\* hits whose cumulative header+text length stays <= max_context_length, and
\* total_chunks is their number.
C7_StopsAtFirstMisfit ==
    Built =>
        /\ context.chunks =
              Take(context.filtered,
                   LongestPrefix(context.filtered, max_context_length))
        /\ context.total_chunks = Len(context.chunks)

\* C7 as amended: with max_context_length > 0 the included hits are the
\* longest prefix of the surviving hits whose cumulative header+text length
\* stays <= max_context_length, a later hit is not added even if it would
\* fit; with max_context_length <= 0 there is no budget and every surviving
\* hit is included; total_chunks is the number of included hits.
C7_StopsAtFirstMisfitWithinBudget ==
    Built =>
        LET n == IF max_context_length > 0
                 THEN LongestPrefix(context.filtered, max_context_length)
                 ELSE Len(context.filtered)
        IN  /\ context.chunks = Take(context.filtered, n)
            /\ context.total_chunks = Len(context.chunks)

\* the second hit does not fit, the third would, and only the first is in
C7_Witness ==
    /\ max_context_length > 0 /\ Built
    /\ Len(context.filtered) = 3
    /\ context.total_chunks = 1
    /\ Len(ChunkTextOf(1, context.filtered[1]))
          + Len(ChunkTextOf(2, context.filtered[2])) > max_context_length
    /\ Len(ChunkTextOf(1, context.filtered[1]))
          + Len(ChunkTextOf(2, context.filtered[3])) <= max_context_length

\* C8: sources and sections of a RetrievedContext are the sorted,
\* duplicate-free source and section metadata of the included chunks only.
C8_SourcesFromIncludedChunks ==
    Built =>
        /\ context.sources =
              Sorted({context.chunks[i].document.source :
                         i \in 1..Len(context.chunks)})
        /\ context.sections =
              Sorted({context.chunks[i].document.section :
                         i \in 1..Len(context.chunks)} \ {""})

\* C9: retrieve_multi_paper keeps min(top_k, pooled) of the pooled hits, in
\* descending score order, and no pooled hit left out by the cut scores
\* strictly higher than a kept one.
C9_MultiSourceFusion ==
    MultiDone =>
        LET pooled == context.results
            kept == context.filtered
            k == EffectiveTopK(r_call.top_k)
            left == SeqBag(pooled) (-) SeqBag(kept)
        IN  /\ Len(kept) = Min(Len(pooled), k)
            /\ SeqBag(kept) \sqsubseteq SeqBag(pooled)
            /\ \A i, j \in 1..Len(kept) : i < j => kept[i].score >= kept[j].score
            /\ \A h \in BagToSet(left) : \A i \in 1..Len(kept) :
                  h.score <= kept[i].score
            /\ context.chunks = Take(kept, Len(context.chunks))

\* A's hit scores lower than B's, top_k = 1: only B's hit is returned
C9_Witness ==
    /\ MultiDone
    /\ r_call.titles = <<"A", "B">> /\ r_call.top_k = 1
    /\ Len(context.results) = 2
    /\ context.results[1].document.source = "A"
    /\ context.results[2].document.source = "B"
    /\ context.results[1].score < context.results[2].score
    /\ context.chunks = <<context.results[2]>>

\* C10: when the embedding or the search fails for some titles of
\* retrieve_multi_paper, the call returns, and its result is the one built
\* from the hits of exactly the titles whose retrieval succeeded.
C10_FailureIsolation ==
    (r_call.op = "retrieve_multi_paper" /\ r_call.failing # {}) =>
        LET succeeded == SelectSeq(r_call.titles,
                                   LAMBDA t : t \notin r_call.failing)
            k == EffectiveTopK(r_call.top_k)
            pooled == context.results
        IN  /\ context.status = "ok"
            /\ \A i \in 1..Len(pooled) :
                  pooled[i].document.source \in SeqToSet(succeeded)
            /\ \A t \in SeqToSet(succeeded) :
                  SelectSeq(pooled, LAMBDA h : h.document.source = t)
                     = RetrieveFromPaperResult(ranked, max_context_length,
                                               r_call.query, t, k, "none").chunks
            /\ Observable(context)
                  = Observable(RetrieveMultiPaperResult(
                                   ranked, max_context_length, r_call.query,
                                   succeeded, r_call.top_k, {}, "none"))

\* A's retrieval fails although the store ranks a hit of A above the
\* threshold; the result holds B's hits
C10_Witness ==
    /\ r_call.op = "retrieve_multi_paper"
    /\ r_call.titles = <<"A", "B">> /\ r_call.failing = {"A"}
    /\ \E i \in 1..Len(ranked) :
          ranked[i].document.source = "A" /\ ranked[i].score >= ScoreThreshold
    /\ context.status = "ok"
    /\ context.chunks # <<>>

\* a query that is empty or holds white space only
Blank(query) == \A i \in 1..Len(query) : query[i] \in {" ", "\t", "\n"}

\* C11: retrieve (with or without a source filter, for every top_k) called
\* with an empty or whitespace-only query raises ValueError, and no
\* embed_text or search call has been made.
C11_EmptyQueryRejected ==
    (r_call.op \in {"retrieve", "retrieve_from_paper"} /\ Blank(r_call.query)) =>
        /\ context.status = "ValueError"
        /\ context.calls = <<>>

\* a whitespace-only query with a source filter and an explicit top_k
C11_Witness ==
    /\ r_call.op = "retrieve_from_paper"
    /\ r_call.query = <<" ", " ">>
    /\ r_call.filter = "A" /\ r_call.top_k = 2
    /\ ranked # <<>>
    /\ context.status = "ValueError"

\* C12: retrieve_multi_paper called with an empty or whitespace-only query
\* ends in ValueError for every list of titles, not in a RetrievedContext.
C12_EmptyQueryRejectedMulti ==
    (r_call.op = "retrieve_multi_paper" /\ Blank(r_call.query)) =>
        context.status = "ValueError"

DeletePaperIndexDone(p) == pc[p] = "done" /\ op[p] = "delete_paper_index"

\* C13: delete_paper_index on a title without an entry returns 0, does not
\* raise, calls nothing on the store and leaves the store, its count(), the
\* map and the file as they were.
C13_DeleteUnindexedReturnsZero ==
    \A p \in Callers :
        (DeletePaperIndexDone(p) /\ ~IsIndexed(pre[p].papers, paper_title[p]))
        => /\ result[p] = Returned(0)
           /\ calls[p] = <<>>
           /\ StoreState = pre[p].store
           /\ Count = CountIn(pre[p].store)
           /\ indexed_papers = pre[p].papers
           /\ index_metadata_file = pre[p].file

\* the title has no entry while another title is indexed and stored
C13_Witness ==
    \E p \in Callers :
        /\ DeletePaperIndexDone(p)
        /\ ~IsIndexed(pre[p].papers, paper_title[p])
        /\ pre[p].papers # << >>
        /\ Count > 0
        /\ result[p] = Returned(0)

\* C14: after delete_paper_index returned for a title that had an entry, the
\* store holds no record whose source is the title, the map has no entry for
\* the title, and the value returned is the number of records of the title
\* that were stored when the call started.
C14_DeleteRemovesRecordsAndEntry ==
    \A p \in Callers :
        (DeletePaperIndexDone(p) /\ IsIndexed(pre[p].papers, paper_title[p])
            /\ result[p].kind = "returned")
        => /\ RecordsOf(paper_title[p]) = 0
           /\ ~IsIndexed(indexed_papers, paper_title[p])
           /\ result[p].value = RecordsIn(pre[p].store, paper_title[p])
           /\ calls[p] = <<[call |-> "delete_by_source", ok |-> TRUE]>>

\* two records of the title were stored and removed, another title stays
C14_Witness ==
    \E p \in Callers :
        /\ DeletePaperIndexDone(p)
        /\ IsIndexed(pre[p].papers, paper_title[p])
        /\ result[p] = Returned(2)
        /\ indexed_papers # << >>

(***************************************************************************)
(* Vector store claims                                                     *)
(***************************************************************************)
AddDocumentsDone(p) ==
    pc[p] = "done" /\ op[p] = "add_documents" /\ result[p].kind = "returned"

DeleteBySourceDone(p) ==
    pc[p] = "done" /\ op[p] = "delete_by_source" /\ result[p].kind = "returned"

\* how many times id is stored in store state st
Copies(st, id) ==
    Cardinality({i \in 1..Len(StoredIds(st)) : StoredIds(st)[i] = id})

InRewrite(title) ==
    \E p \in Callers :
        /\ op[p] = "index_paper" /\ force_reindex[p] /\ paper_title[p] = title
        /\ pc[p] \in {"ip_chunk", "ip_embed", "ip_add"}
        /\ calls[p] # <<>>
        /\ calls[p][1] = [call |-> "delete_by_source", ok |-> TRUE]

\* C17: no retrieval restricted to a title reads the store while a forced
\* index_paper of that title is between its delete_by_source and the end of
\* its add_documents (a step that leaves every pc alone is a read).
C17_PerTitleExclusion ==
    [][(pc' = pc /\ r_call'.op = "retrieve_from_paper")
          => ~InRewrite(r_call'.filter)]_vars

\* object i has returned from an index_paper that stored its chunks and
\* dumped its map
Succeeded(i) ==
    /\ instances[i].pc = "done"
    /\ instances[i].result.kind = "returned"
    /\ instances[i].result.value > 0
    /\ instances[i].saved

\* C18: when two index_paper calls for different titles ran concurrently and
\* both succeeded, the metadata file holds the entry of both titles.
C18_ConcurrentWritersKeepBothEntries ==
    \A i, j \in Instances :
        (i # j /\ Succeeded(i) /\ Succeeded(j)
            /\ instances[i].overlap /\ instances[j].overlap
            /\ instances[i].title # instances[j].title)
        => /\ IsIndexed(index_metadata_file, instances[i].title)
           /\ IsIndexed(index_metadata_file, instances[j].title)

(***************************************************************************)
(* Chunker claims                                                          *)
(***************************************************************************)
ChunkTextDone(p) == pc[p] = "done" /\ op[p] = "chunk_text"

\* the sentences of chunk b that chunk a holds too, in b's order
SharedSentences(a, b) ==
    SelectSeq(b.text, LAMBDA s : \E k \in 1..Len(a.text) : a.text[k] = s)

\* the sentences of chunk b that chunk a does not hold, in b's order
OwnSentences(a, b) ==
    SelectSeq(b.text, LAMBDA s : \A k \in 1..Len(a.text) : a.text[k] # s)

\* the chunks with the shared sentences of every chunk after the first
\* removed, concatenated in index order
RECURSIVE WithoutOverlap(_, _)
WithoutOverlap(cs, n) ==
    IF n = 0 THEN <<>>
    ELSE IF n = 1 THEN cs[1].text
    ELSE WithoutOverlap(cs, n - 1) \o OwnSentences(cs[n - 1], cs[n])

\* C19: for consecutive chunks of chunk_text the sentences the later chunk
\* shares with the earlier one are a suffix of the earlier chunk and a prefix
\* of the later one, and joined by spaces they are at most chunk_overlap
\* characters long.
C19_OverlapInvariant ==
    \A p \in Callers :
        ChunkTextDone(p) =>
            \A i \in 1..(Len(chunks[p]) - 1) :
                LET a == chunks[p][i]
                    b == chunks[p][i + 1]
                    shared == SharedSentences(a, b)
                    n == Len(shared)
                IN  /\ shared = SubSeq(a.text, Len(a.text) - n + 1, Len(a.text))
                    /\ shared = SubSeq(b.text, 1, n)
                    /\ (IF n = 0 THEN 0 ELSE SumLen(shared) + n - 1) <= chunk_overlap
                    /\ b.chunk_index = a.chunk_index + 1

\* two sentences of a three-sentence chunk are carried into the next chunk
C19_Witness ==
    \E p \in Callers :
        /\ ChunkTextDone(p)
        /\ Len(chunks[p]) >= 2
        /\ Len(chunks[p][1].text) = 3
        /\ Len(SharedSentences(chunks[p][1], chunks[p][2])) = 2

\* C20: for a non-empty text, the chunks of chunk_text with the overlap
\* prefix of every chunk after the first removed, concatenated in index
\* order, are the sentences of the text: each one once, in order.
C20_SentenceCoverage ==
    \A p \in Callers :
        (ChunkTextDone(p) /\ latex_content[p] # <<>>)
        => /\ chunks[p] # <<>>
           /\ WithoutOverlap(chunks[p], Len(chunks[p])) = latex_content[p]

\* three chunks, the second and third each starting with an overlap
C20_Witness ==
    \E p \in Callers :
        /\ ChunkTextDone(p)
        /\ Len(chunks[p]) = 3
        /\ SharedSentences(chunks[p][1], chunks[p][2]) # <<>>
        /\ SharedSentences(chunks[p][2], chunks[p][3]) # <<>>


\* C21 as stated: for every text shorter than chunk_size, the empty text
\* included, chunk_text returns exactly one chunk, with index 0, whose text
\* is the sentences of the text joined by single spaces.
C21_ShortTextOneChunk ==
    \A p \in Callers :
        (ChunkTextDone(p) /\ JoinedLen(latex_content[p]) < chunk_size)
        => /\ Len(chunks[p]) = 1
           /\ chunks[p][1].chunk_index = 0
           /\ chunks[p][1].text = latex_content[p]

\* C21, amended: for every non-empty text shorter than chunk_size chunk_text
\* returns exactly one chunk, with index 0, whose text is the sentences of
\* the text joined by single spaces; for the empty text it returns no chunk.
C21_NonEmptyShortTextOneChunk ==
    \A p \in Callers :
        (ChunkTextDone(p) /\ JoinedLen(latex_content[p]) < chunk_size)
        => IF latex_content[p] = <<>>
           THEN chunks[p] = <<>>
           ELSE /\ Len(chunks[p]) = 1
                /\ chunks[p][1].chunk_index = 0
                /\ chunks[p][1].text = latex_content[p]

\* a text of three sentences, one character short of chunk_size when joined,
\* was chunked by a chunker whose overlap is not zero
C21_Witness ==
    \E p \in Callers :
        /\ ChunkTextDone(p)
        /\ Len(latex_content[p]) = 3
        /\ JoinedLen(latex_content[p]) = chunk_size - 1
        /\ chunk_overlap > 0
        /\ Len(chunks[p]) = 1

\* C27: when no sentence of the text is longer than chunk_size, the text of
\* every chunk of chunk_text, joined by single spaces, is at most chunk_size
\* characters long.
C27_ChunksBounded ==
    \A p \in Callers :
        (ChunkTextDone(p)
         /\ \A i \in 1..Len(latex_content[p]) : latex_content[p][i].len <= chunk_size)
        => \A k \in 1..Len(chunks[p]) : JoinedLen(chunks[p][k].text) <= chunk_size


(***************************************************************************)
(* Indexer claims, continued                                               *)
(***************************************************************************)
\* C22: index_paper called with an empty title fails at once: the call
\* raises, it makes no embed_batch, add_documents or delete_by_source call,
\* and no entry is written for the empty title, in memory or in the file.
C22_EmptyTitleRejected ==
    \A p \in Callers :
        (op[p] = "index_paper" /\ paper_title[p] = MissingTitle)
        => /\ pc[p] = "done" /\ result[p] = Raised
           /\ calls[p] = <<>>
           /\ ~IsIndexed(indexed_papers, MissingTitle)
           /\ ~IsIndexed(index_metadata_file, MissingTitle)


\* C25: when no embedding provider or vector store call fails, between calls
\* of index_paper and delete_paper_index every title with an entry in
\* indexed_papers has exactly num_chunks records in the store and every
\* title without an entry has none.
C25_ConsistentWithoutFailures ==
    (\A p \in Callers : pc[p] \in {"idle", "done"})
    => \A t \in Titles :
           RecordsOf(t) = IF IsIndexed(indexed_papers, t)
                          THEN indexed_papers[t].num_chunks
                          ELSE 0


(***************************************************************************)
(* Retriever claims, continued                                             *)
(***************************************************************************)
\* the hits of every title that reach the threshold, cut to k per title,
\* before any context is assembled, in the order of the titles
RECURSIVE SurvivingPool(_, _, _)
SurvivingPool(rk, titles, k) ==
    IF titles = <<>> THEN <<>>
    ELSE FilterResults(Search(rk, k * 2, titles[1]), k)
            \o SurvivingPool(rk, Tail(titles), k)

\* C24: when no title's retrieval fails, what retrieve_multi_paper returns is
\* the RetrievedContext obtained by pooling every title's hits that reach the
\* threshold (at most top_k per title), sorting the pool by score, cutting it
\* to top_k and assembling the context once.
C24_PoolThenAssembleOnce ==
    (MultiDone /\ ~Blank(r_call.query) /\ r_call.failing = {})
    => LET k == EffectiveTopK(r_call.top_k)
           pooled == SurvivingPool(ranked, r_call.titles, k)
           once == IF pooled = <<>> THEN NoContext(<<>>, <<>>)
                   ELSE BuildContext(SortAndCut(pooled, k), max_context_length,
                                     <<>>, <<>>)
       IN  Observable(context) = Observable(once)

\* C26: a RetrievedContext with total_chunks = 0 returned by retrieve,
\* retrieve_from_paper or retrieve_multi_paper has no chunks, the text
\* "No relevant context found." and empty sources and sections.
C26_ZeroHitsIsNoContext ==
    (r_call.op # "none" /\ context.status = "ok" /\ context.total_chunks = 0)
    => Observable(context) = Observable(NoContext(<<>>, <<>>))


(***************************************************************************)
(* Chunker claims, continued                                               *)
(***************************************************************************)
ChunkLatexDone(p) == pc[p] = "done" /\ op[p] = "chunk_latex"

\* the chunks of chunk_text for the body of every marker, in document order,
\* each tagged with the marker's title and level
RECURSIVE BodyChunks(_, _, _)
BodyChunks(section_markers, size, overlap) ==
    IF section_markers = <<>> THEN <<>>
    ELSE LET m == section_markers[1]
             cs == ChunkText(m.body, size, overlap)
         IN  [k \in 1..Len(cs) |->
                 [text |-> cs[k].text,
                  section |-> m.title \o " (" \o m.level \o ")"]]
                \o BodyChunks(Tail(section_markers), size, overlap)

\* C23: for a text with section markers of which at least one has a body,
\* chunk_latex returns the chunk_text chunks of every non-empty body, in
\* document order and tagged with the section, also when two markers have
\* the same title and level, and the chunk indices are 0, 1, 2, ...
C23_EverySectionKept ==
    \A p \in Callers :
        (ChunkLatexDone(p)
         /\ \E i \in 1..Len(latex_content[p]) : latex_content[p][i].body # <<>>)
        => LET expected == BodyChunks(latex_content[p], chunk_size, chunk_overlap)
           IN  /\ Len(chunks[p]) = Len(expected)
               /\ \A k \in 1..Len(chunks[p]) :
                     /\ chunks[p][k].text = expected[k].text
                     /\ chunks[p][k].section = expected[k].section
                     /\ chunks[p][k].chunk_index = k - 1


(***************************************************************************)
(* Worker queue claims                                                     *)
(***************************************************************************)
\* C28: in every step in which a worker takes a job from the queue, no job
\* left in the queue has a strictly higher priority than the job taken.
C28_HighestPriorityFirst ==
    [][\A w \in Workers :
          (workers[w].pc # "processing" /\ workers'[w].pc = "processing")
          => \A k \in 1..Len(job_queue') :
                jobs[job_queue'[k][2]].priority <= jobs[workers'[w].job].priority]_vars

\* C29: once shutdown() has been called on a started queue it eventually
\* returns, whatever is waiting in the queue and whatever the workers are
\* doing at that time.
C29_ShutdownReturns ==
    (shutdown_pc = "gather" /\ \A w \in Workers : workers[w].pc # "new")
        ~> (shutdown_pc = "returned")

\* the statuses a job ends in
Terminal == {"completed", "failed"}
\* the status of the j-th recorded job
StatusOf(j) == IF j <= Len(jobs) THEN jobs[j].status ELSE "none"

\* C30: every recorded job that is PENDING is on the queue; a job's status only moves PENDING, PROCESSING, then
\* COMPLETED or FAILED, where it stays; processed_count + failed_count is
\* the number of jobs in a terminal status; and while the workers keep
\* running every PENDING job eventually reaches a terminal status.
C30_EveryJobProcessedOnce ==
    /\ [](\A j \in 1..Len(jobs) :
             jobs[j].status = "pending"
             => \E k \in 1..Len(job_queue) : job_queue[k][2] = j)
    /\ [](processed_count + failed_count
             = Cardinality({j \in 1..Len(jobs) : jobs[j].status \in Terminal}))
    /\ [][\A j \in 1..Len(jobs) :
             jobs'[j].status # jobs[j].status
             => \/ jobs[j].status = "pending" /\ jobs'[j].status = "processing"
                \/ jobs[j].status = "processing" /\ jobs'[j].status \in Terminal]_vars
    /\ \A j \in 1..MaxJobs :
          (StatusOf(j) = "pending" /\ is_running)
              ~> (StatusOf(j) \in Terminal \/ ~is_running)

====
